---- MODULE Spec2Model ----
(***************************************************************************)
(* A model of the rate-limiting and retry core of the tweet generator:     *)
(*   - TokenBucket / RateLimiter   (src/src/services/rate_limiter.py)      *)
(*   - retry_with_tenacity / retry_with_custom_backoff                      *)
(*                                  (src/retry_handler.py)                  *)
(*                                                                         *)
(* Representation of the floating-point quantities (exact, fixed point):   *)
(*   tokens      : integer number of 1/TokenScale tokens (milli-tokens)    *)
(*   clock       : integer number of ticks of TickMillis milliseconds      *)
(*   refill_rate : milli-tokens per tick                                   *)
(*   delays      : integer number of tenths of a second                    *)
(* Floating-point rounding error of the Python arithmetic is not modelled. *)
(***************************************************************************)
EXTENDS Integers, Sequences, FiniteSets, TLC

VARIABLES
    \* ---- TokenBucket / RateLimiter -------------------------------------
    capacity,             \* TokenBucket.capacity (whole tokens)
    refill_rate,          \* TokenBucket.refill_rate (milli-tokens per tick)
    requests_per_minute,  \* RateLimiter.requests_per_minute, 0: bare TokenBucket
    tokens,               \* TokenBucket.tokens (milli-tokens)
    last_refill,          \* TokenBucket.last_refill (ticks)
    lock,                 \* TokenBucket.lock: the holding thread, NoThread if free
    clock,                \* the value time.time() returns (ticks)
    ticks,                \* number of clock advances so far (bounds the model)
    pc,                   \* per thread: position inside the current call
    call,                 \* per thread: the call in progress [entry, op, n]
    local,                \* per thread: locals of the call in progress
    ncalls,               \* number of calls made so far, by all threads
    nTrue,                \* number of consume calls that returned True
    nFalse,               \* number of consume calls that returned False
    onlyConsume1,         \* every call so far was consume(1) / is_allowed()
    granted,              \* sum of n over the consume calls that returned True
    drainedAt,            \* clock reading of the consume that emptied the bucket
    base,                 \* token count and time right after the last successful consume
    built,                \* "no", "yes" or "raised": what __init__ has done
    advice,               \* the last report a caller was given, and when
    \* ---- retry sequence -------------------------------------------------
    rcfg,                 \* arguments of the retry call
    script,               \* what the operation does on its 1st, 2nd, ... call
    rpc,                  \* state of the retry sequence
    attempt,              \* number of invocations of the operation so far
    sleeps,               \* the delays slept so far, in order
    last_exception,       \* the exception of the last failed attempt
    outcome,              \* what the retry call returned or raised
    \* ---- validate_and_parse_response ------------------------------------
    raw_response,         \* the text handed to validate_and_parse_response
    payload,              \* the members the token "B" of the text stands for
    ppc,                  \* position inside validate_and_parse_response
    json_str,             \* raw_response[start:end+1]
    data,                 \* what json.loads returned
    presult,              \* what validate_and_parse_response returned or raised
    triedDecode,          \* json.loads has been called
    triedSchema,          \* TweetResponse(**data) has been called
    \* ---- tweet generation ------------------------------------------------
    greq,                 \* the request [topic, tone, max_words]
    gcfg,                 \* [entry, max_retries]: entry point and its argument
    gscript,              \* what the gateway does on its 1st, 2nd, ... call
    gpc,                  \* position inside the generation call
    gattempt,             \* `attempt` of generate_tweet_with_retry's loop
    retry_count,          \* retry_count of generate_tweet_with_retry
    last_error,           \* last_error of generate_tweet_with_retry
    gresult,              \* what the generation call returned or raised
    gatewayCalls,         \* the HTTP status of each gateway call made so far
    \* ---- one call of a function without state ---------------------------
    fargs,                \* the function called and its arguments
    fret,                 \* what it returned or raised
    fpc,                  \* "idle", "called" or "done"
    \* ---- ConversationMemoryManager --------------------------------------
    window_size,          \* ConversationBufferWindowMemory.k
    messages,             \* memory.chat_memory.messages
    turn_number,          \* ConversationMemoryManager.turn_number
    added                 \* number of messages added since construction

bucketVars == <<capacity, refill_rate, requests_per_minute, tokens, last_refill,
                lock, clock, ticks, pc, call, local, ncalls, nTrue,
                nFalse, onlyConsume1, granted, drainedAt, base, built, advice>>
retryVars == <<rcfg, script, rpc, attempt, sleeps, last_exception, outcome>>
parseVars == <<raw_response, payload, ppc, json_str, data, presult,
               triedDecode, triedSchema>>
genVars == <<greq, gcfg, gscript, gpc, gattempt, retry_count, last_error,
             gresult, gatewayCalls>>
fnVars == <<fargs, fret, fpc>>
memVars == <<window_size, messages, turn_number, added>>
vars == <<bucketVars, retryVars, parseVars, genVars, fnVars, memVars>>

\* Fixed at construction.
cfgVars == <<capacity, refill_rate, requests_per_minute>>
\* Left alone by every method of the bucket.
extVars == <<built, advice>>
\* Records of what has happened, read by no action.
histVars == <<ncalls, nTrue, nFalse, onlyConsume1, granted, drainedAt, base>>

(***************************************************************************)
(* Bounds of the model                                                     *)
(***************************************************************************)
MaxCapacity == 2
MaxCalls == 3
MaxTicks == 2
MaxAttemptsBound == 4

\* More threads than the largest capacity, and requests beyond it.
NumThreads == MaxCapacity + 1
MaxConsume == MaxCapacity + 1
MaxRequestsPerMinute == MaxCapacity

Threads == 1..NumThreads
NoThread == 0
None == "None"

Min(a, b) == IF a <= b THEN a ELSE b
Max(a, b) == IF a >= b THEN a ELSE b

(***************************************************************************)
(* Units                                                                   *)
(***************************************************************************)
TokenScale == 1000
TickMillis == 60

\* Durations by which the clock advances between two steps (ticks).
TickSteps == {1, 100}

\* refill_rate arguments of a bare TokenBucket: 10/60 tokens per second (the
\* default) and 1.0 token per second, in milli-tokens per tick.
BucketRates == {(10 * TokenScale * TickMillis) \div (60 * 1000),
                (1 * TokenScale * TickMillis) \div 1000}

\* round(x, d) of Python for the non-negative rational a/b scaled to an
\* integer: the nearest integer to a/b, ties to the even one.
RoundHalfEven(a, b) ==
    LET q == a \div b
        r == a % b
    IN  IF 2 * r < b THEN q
        ELSE IF 2 * r > b THEN q + 1
        ELSE IF q % 2 = 0 THEN q ELSE q + 1

(***************************************************************************)
(* TokenBucket.__init__ and RateLimiter.__init__                           *)
(***************************************************************************)
TokenBucketInit(cap, rate) ==
    /\ capacity = cap
    /\ refill_rate = rate
    /\ tokens = cap * TokenScale
    /\ last_refill = clock
    /\ lock = NoThread

\* refill_rate = requests_per_minute / 60.0 tokens per second
RateLimiterInit(rpm) ==
    /\ TokenBucketInit(rpm, (rpm * TokenScale * TickMillis) \div (60 * 1000))
    /\ requests_per_minute = rpm

\* No report has been returned yet.
NoAdvice == [entry |-> None, n |-> 0, ret |-> None, at |-> -1, before |-> 0,
             after |-> 0, due |-> -1, nTrue |-> 0]

IdleCall == [entry |-> None, op |-> None, n |-> 0]
IdleLocal == [pre |-> 0, drained |-> -1, now |-> 0, elapsed |-> 0, refilled |-> 0,
              ret |-> None]

BucketInit ==
    /\ clock = 0
    /\ ticks = 0
    /\ \/ \E cap \in 1..MaxCapacity, rate \in BucketRates :
             TokenBucketInit(cap, rate) /\ requests_per_minute = 0
       \/ \E rpm \in 1..MaxRequestsPerMinute : RateLimiterInit(rpm)
    /\ pc = [t \in Threads |-> "idle"]
    /\ call = [t \in Threads |-> IdleCall]
    /\ local = [t \in Threads |-> IdleLocal]
    /\ ncalls = 0
    /\ nTrue = 0
    /\ nFalse = 0
    /\ onlyConsume1 = TRUE
    /\ granted = 0
    /\ base = [tokens |-> tokens, at |-> 0]
    /\ drainedAt = -1
    /\ built = "yes"
    /\ advice = NoAdvice

(***************************************************************************)
(* The clock: time.time(), non-decreasing in this specification            *)
(***************************************************************************)
Tick ==
    /\ ticks < MaxTicks
    /\ \E d \in TickSteps : clock' = clock + d
    /\ ticks' = ticks + 1
    /\ UNCHANGED <<cfgVars, extVars, histVars, tokens, last_refill, lock, pc, call, local>>

(***************************************************************************)
(* Entry points.  RateLimiter methods delegate to the bucket.              *)
(***************************************************************************)
BucketEntries ==
    {[entry |-> "consume", op |-> "consume", n |-> n] : n \in 1..MaxConsume}
    \cup {[entry |-> "get_status", op |-> "get_status", n |-> 0]}
    \cup {[entry |-> "time_until_available", op |-> "time_until_available", n |-> n] :
             n \in 1..MaxConsume}

LimiterEntries ==
    {[entry |-> "is_allowed", op |-> "consume", n |-> 1],
     [entry |-> "get_rate_limit_status", op |-> "get_status", n |-> 0],
     [entry |-> "time_until_reset", op |-> "time_until_available", n |-> 1]}

Entries == IF requests_per_minute = 0 THEN BucketEntries ELSE LimiterEntries

\* `with self.lock:` is entered when no thread holds the lock.
LockAvailableNoMutex == TRUE

LockAvailable == lock = NoThread

\* A thread calls a method of the bucket or of the limiter and enters its
\* `with self.lock:` block; a thread that finds the lock held waits, which
\* changes nothing.
Acquire(t) ==
    /\ pc[t] = "idle"
    /\ ncalls < MaxCalls
    /\ LockAvailable
    /\ \E c \in Entries :
          /\ call' = [call EXCEPT ![t] = c]
          /\ onlyConsume1' = (onlyConsume1 /\ c.op = "consume" /\ c.n = 1)
    /\ lock' = t
    /\ pc' = [pc EXCEPT ![t] = "refill"]
    /\ local' = [local EXCEPT ![t].pre = tokens, ![t].drained = drainedAt]
    /\ ncalls' = ncalls + 1
    /\ UNCHANGED <<cfgVars, extVars, nTrue, nFalse, granted, base, drainedAt, tokens,
                   last_refill, clock, ticks>>

\* TokenBucket._refill_tokens: `self.last_refill = now`
KeepLastRefill(now) == last_refill

NewLastRefill(now) == now

\* TokenBucket._refill_tokens: the new token count.
RefilledNoCap(tok, elapsed) == tok + elapsed * refill_rate

\* (variant) only whole tokens are credited by a refill
RefilledWholeTokens(tok, elapsed) ==
    Min(capacity * TokenScale,
        tok + ((elapsed * refill_rate) \div TokenScale) * TokenScale)

Refilled(tok, elapsed) == Min(capacity * TokenScale, tok + elapsed * refill_rate)

RefillTokens(t) ==
    /\ pc[t] = "refill"
    /\ pc' = [pc EXCEPT ![t] = call[t].op]
    /\ LET now == clock
           elapsed == now - last_refill
       IN  /\ tokens' = Refilled(tokens, elapsed)
           /\ last_refill' = NewLastRefill(now)
           /\ local' = [local EXCEPT ![t].now = now, ![t].elapsed = elapsed,
                                     ![t].refilled = Refilled(tokens, elapsed)]
    /\ drainedAt' = IF tokens' = 0 THEN drainedAt ELSE -1
    /\ UNCHANGED <<cfgVars, extVars, ncalls, nTrue, nFalse, onlyConsume1, granted, base,
                   lock, clock, ticks, call>>

\* TokenBucket.consume: `if self.tokens >= tokens`
SufficientAny(tok, n) == tok > 0

SufficientStrict(tok, n) == tok > n * TokenScale

Sufficient(tok, n) == tok >= n * TokenScale

ConsumeCheck(t) ==
    /\ pc[t] = "consume"
    /\ IF Sufficient(tokens, call[t].n)
       THEN /\ pc' = [pc EXCEPT ![t] = "deduct"]
            /\ UNCHANGED <<local, nFalse>>
       ELSE /\ pc' = [pc EXCEPT ![t] = "release"]
            /\ local' = [local EXCEPT ![t].ret = FALSE]
            /\ nFalse' = nFalse + 1
    /\ UNCHANGED <<cfgVars, extVars, ncalls, nTrue, onlyConsume1, granted, base,
                   drainedAt, tokens, last_refill, lock, clock, ticks, call>>

\* TokenBucket.consume: `self.tokens -= tokens; return True`
ConsumeDeduct(t) ==
    /\ pc[t] = "deduct"
    /\ tokens' = tokens - call[t].n * TokenScale
    /\ local' = [local EXCEPT ![t].ret = TRUE]
    /\ nTrue' = nTrue + 1
    /\ granted' = granted + call[t].n
    /\ base' = [tokens |-> tokens', at |-> local[t].now]
    /\ drainedAt' = IF tokens' = 0 THEN local[t].now ELSE -1
    /\ pc' = [pc EXCEPT ![t] = "release"]
    /\ UNCHANGED <<cfgVars, extVars, ncalls, nFalse, onlyConsume1, last_refill,
                   lock, clock, ticks, call>>

\* TokenBucket.get_status: the report; current_tokens in hundredths of a
\* token, next_token_in_seconds in tenths of a second.
BucketStatus ==
    LET tokens_needed == Max(0, TokenScale - tokens)
    IN  [current_tokens |-> RoundHalfEven(tokens * 100, TokenScale),
         capacity |-> capacity,
         next_token_in_seconds |->
             IF refill_rate > 0
             THEN RoundHalfEven(tokens_needed * TickMillis * 10, refill_rate * 1000)
             ELSE 0,
         bucket_full |-> tokens >= capacity * TokenScale]

\* RateLimiter.get_rate_limit_status, built on the bucket's report.
RateLimitStatus(status) ==
    [allowed |-> status.current_tokens >= 100,
     remaining_requests |-> status.current_tokens \div 100,
     limit_per_minute |-> requests_per_minute,
     reset_in_seconds |-> status.next_token_in_seconds,
     bucket_status |-> status]

GetStatus(t) ==
    /\ pc[t] = "get_status"
    /\ pc' = [pc EXCEPT ![t] = "release"]
    /\ local' = [local EXCEPT ![t].ret =
                    IF call[t].entry = "get_rate_limit_status"
                    THEN RateLimitStatus(BucketStatus) ELSE BucketStatus]
    /\ UNCHANGED <<cfgVars, extVars, histVars, tokens, last_refill, lock, clock, ticks, call>>

\* TokenBucket.time_until_available: the wait as the exact fraction
\* num/den of a tick (0/1 when the tokens are there, 1/0 for float('inf')).
\* (variant) the wait is computed for one token whatever n is
TimeUntilAvailableForOne(n) ==
    IF Sufficient(tokens, 1) THEN [num |-> 0, den |-> 1]
    ELSE IF refill_rate > 0
    THEN [num |-> TokenScale - tokens, den |-> refill_rate]
    ELSE [num |-> 1, den |-> 0]

TimeUntilAvailable(n) ==
    IF Sufficient(tokens, n) THEN [num |-> 0, den |-> 1]
    ELSE IF refill_rate > 0
    THEN [num |-> n * TokenScale - tokens, den |-> refill_rate]
    ELSE [num |-> 1, den |-> 0]

TimeUntil(t) ==
    /\ pc[t] = "time_until_available"
    /\ pc' = [pc EXCEPT ![t] = "release"]
    /\ local' = [local EXCEPT ![t].ret = TimeUntilAvailable(call[t].n)]
    /\ UNCHANGED <<cfgVars, extVars, histVars, tokens, last_refill, lock, clock, ticks, call>>

\* Leaving `with self.lock:` and returning to the caller.
\* (variant) the call returns and the lock stays held
ReleaseToKeepingLock(t, after) ==
    /\ pc[t] = "release"
    /\ pc' = [pc EXCEPT ![t] = after]
    /\ call' = [call EXCEPT ![t] = IdleCall]
    /\ local' = [local EXCEPT ![t] = IdleLocal]
    /\ UNCHANGED <<cfgVars, extVars, ncalls, nTrue, nFalse, onlyConsume1, granted, base,
                   drainedAt, tokens, last_refill, clock, ticks, lock>>

ReleaseTo(t, after) ==
    /\ pc[t] = "release"
    /\ lock' = NoThread
    /\ pc' = [pc EXCEPT ![t] = after]
    /\ call' = [call EXCEPT ![t] = IdleCall]
    /\ local' = [local EXCEPT ![t] = IdleLocal]
    /\ UNCHANGED <<cfgVars, extVars, ncalls, nTrue, nFalse, onlyConsume1, granted, base,
                   drainedAt, tokens, last_refill, clock, ticks>>

Release(t) == ReleaseTo(t, "idle")

(***************************************************************************)
(* A burst: every thread calls consume(1) once, all concurrently           *)
(* (tests/test_rate_limiter.py, test_concurrent_access).                   *)
(***************************************************************************)
\* threading.Thread(target=consume_token).start(): the thread calls
\* bucket.consume(1) and competes for the lock.
BurstStart(t) ==
    /\ pc[t] = "idle"
    /\ call' = [call EXCEPT ![t] = [entry |-> "consume", op |-> "consume", n |-> 1]]
    /\ pc' = [pc EXCEPT ![t] = "acquire"]
    /\ ncalls' = ncalls + 1
    /\ UNCHANGED <<cfgVars, extVars, nTrue, nFalse, onlyConsume1, granted, base, drainedAt,
                   tokens, last_refill, lock, clock, ticks, local>>

\* The thread enters `with self.lock:`.
BurstEnter(t) ==
    /\ pc[t] = "acquire"
    /\ LockAvailable
    /\ lock' = t
    /\ pc' = [pc EXCEPT ![t] = "refill"]
    /\ local' = [local EXCEPT ![t].pre = tokens, ![t].drained = drainedAt]
    /\ UNCHANGED <<cfgVars, extVars, histVars, tokens, last_refill, clock, ticks, call>>

\* The thread's call returns and the thread ends.
BurstFinish(t) == ReleaseTo(t, "done")

\* No text is being parsed and no tweet is being generated in the bucket's
\* and the retry sequence's specifications.
ParseIdle ==
    /\ raw_response = <<>>
    /\ payload = None
    /\ ppc = "idle"
    /\ json_str = <<>>
    /\ data = None
    /\ presult = None
    /\ triedDecode = FALSE
    /\ triedSchema = FALSE

FnIdle ==
    /\ fargs = None
    /\ fret = None
    /\ fpc = "idle"

MemIdle ==
    /\ window_size = 0
    /\ messages = <<>>
    /\ turn_number = 0
    /\ added = 0

GenIdle ==
    /\ greq = None
    /\ gcfg = None
    /\ gscript = <<>>
    /\ gpc = "idle"
    /\ gattempt = 0
    /\ retry_count = 0
    /\ last_error = None
    /\ gresult = None
    /\ gatewayCalls = <<>>

\* The retry sequence is not running in the bucket's specification.
\* No exception has been raised; the retry call has not ended yet.
NoException == [type |-> "None", status_code |-> 0]
NoOutcome == [kind |-> "none"]

RetryIdle ==
    /\ rcfg = None
    /\ script = <<>>
    /\ rpc = "Idle"
    /\ attempt = 0
    /\ sleeps = <<>>
    /\ last_exception = NoException
    /\ outcome = NoOutcome

Init == BucketInit /\ RetryIdle /\ ParseIdle /\ GenIdle /\ FnIdle /\ MemIdle

Next ==
    \/ Tick /\ UNCHANGED <<retryVars, parseVars, genVars, fnVars, memVars>>
    \/ \E t \in Threads : Acquire(t) /\ UNCHANGED <<retryVars, parseVars, genVars, fnVars, memVars>>
    \/ \E t \in Threads : RefillTokens(t) /\ UNCHANGED <<retryVars, parseVars, genVars, fnVars, memVars>>
    \/ \E t \in Threads : ConsumeCheck(t) /\ UNCHANGED <<retryVars, parseVars, genVars, fnVars, memVars>>
    \/ \E t \in Threads : ConsumeDeduct(t) /\ UNCHANGED <<retryVars, parseVars, genVars, fnVars, memVars>>
    \/ \E t \in Threads : GetStatus(t) /\ UNCHANGED <<retryVars, parseVars, genVars, fnVars, memVars>>
    \/ \E t \in Threads : TimeUntil(t) /\ UNCHANGED <<retryVars, parseVars, genVars, fnVars, memVars>>
    \/ \E t \in Threads : Release(t) /\ UNCHANGED <<retryVars, parseVars, genVars, fnVars, memVars>>

Spec == Init /\ [][Next]_vars

BurstNext ==
    \/ Tick /\ UNCHANGED <<retryVars, parseVars, genVars, fnVars, memVars>>
    \/ \E t \in Threads : BurstStart(t) /\ UNCHANGED <<retryVars, parseVars, genVars, fnVars, memVars>>
    \/ \E t \in Threads : BurstEnter(t) /\ UNCHANGED <<retryVars, parseVars, genVars, fnVars, memVars>>
    \/ \E t \in Threads : RefillTokens(t) /\ UNCHANGED <<retryVars, parseVars, genVars, fnVars, memVars>>
    \/ \E t \in Threads : ConsumeCheck(t) /\ UNCHANGED <<retryVars, parseVars, genVars, fnVars, memVars>>
    \/ \E t \in Threads : ConsumeDeduct(t) /\ UNCHANGED <<retryVars, parseVars, genVars, fnVars, memVars>>
    \/ \E t \in Threads : BurstFinish(t) /\ UNCHANGED <<retryVars, parseVars, genVars, fnVars, memVars>>

SpecBurst == Init /\ [][BurstNext]_vars

(***************************************************************************)
(* Retry: retry_with_tenacity and retry_with_custom_backoff                *)
(* (src/retry_handler.py; src/src/utils/retry_handler.py is the same code) *)
(***************************************************************************)
\* What one call of the operation does: return a value or raise.
Return(v) == [kind |-> "return", value |-> v]
Raise(e) == [kind |-> "raise", exc |-> e]

RetryableHTTPError(status_code) ==
    [type |-> "RetryableHTTPError", status_code |-> status_code]
ConnectionError == [type |-> "ConnectionError", status_code |-> 0]
Timeout == [type |-> "Timeout", status_code |-> 0]
OtherException == [type |-> "Exception", status_code |-> 0]
\* tenacity.RetryError, raised by Retrying when it stops (reraise is False)
RetryError == [type |-> "RetryError", status_code |-> 0]

Exceptions == {RetryableHTTPError(500), RetryableHTTPError(400),
               ConnectionError, Timeout, OtherException}
Outcomes == {Return("success")} \cup {Raise(e) : e \in Exceptions}

\* Delays are in tenths of a second.
DefaultBaseDelay == 10
DefaultMaxDelay == 100
JitterMax == 1
BaseDelays == {DefaultBaseDelay, 4 * DefaultBaseDelay}

RECURSIVE Pow2(_)
Pow2(k) == IF k = 0 THEN 1 ELSE 2 * Pow2(k - 1)

\* is_retryable_error
IsRetryableErrorAnyStatus(e) ==
    e.type \in {"RetryableHTTPError", "ConnectionError", "Timeout"}

IsRetryableError(e) ==
    IF e.type = "RetryableHTTPError"
    THEN 500 <= e.status_code /\ e.status_code < 600
    ELSE e.type \in {"ConnectionError", "Timeout"}

\* retry=retry_if_exception_type((RetryableHTTPError, ConnectionError, Timeout))
RetryIfExceptionType(e) ==
    e.type \in {"RetryableHTTPError", "ConnectionError", "Timeout"}

\* retry_with_custom_backoff, the except block after failed attempt
\* `attempt` (0-based): re-raise or sleep.
CustomDecisionRetryAll(e, i) ==
    IF i = rcfg.max_attempts - 1 THEN "Exhausted" ELSE "RetryScheduled"

CustomDecisionOffByOne(e, i) ==
    IF ~IsRetryableError(e) THEN "Aborted"
    ELSE IF i >= rcfg.max_attempts - 2 THEN "Exhausted"
    ELSE "RetryScheduled"

\* (variant) the last pass does not re-raise
CustomDecisionNeverExhausts(e, i) ==
    IF ~IsRetryableError(e) THEN "Aborted" ELSE "RetryScheduled"

CustomDecision(e, i) ==
    IF ~IsRetryableError(e) THEN "Aborted"
    ELSE IF i = rcfg.max_attempts - 1 THEN "Exhausted"
    ELSE "RetryScheduled"

\* delay = base_delay * (2 ** attempt) + random.uniform(0, 0.1)
CustomDelay(i, jitter) == rcfg.base_delay * Pow2(i) + jitter

\* Retrying.iter after failed attempt `n` (1-based): the retry predicate,
\* then stop_after_attempt(max_attempts).
TenacityDecisionOffByOne(e, n) ==
    IF ~RetryIfExceptionType(e) THEN "Aborted"
    ELSE IF n >= rcfg.max_attempts - 1 THEN "Exhausted"
    ELSE "RetryScheduled"

TenacityDecision(e, n) ==
    IF ~RetryIfExceptionType(e) THEN "Aborted"
    ELSE IF n >= rcfg.max_attempts THEN "Exhausted"
    ELSE "RetryScheduled"

\* wait_exponential(multiplier=base_delay, max=max_delay) after attempt n
TenacityWait(n) ==
    Max(0, Min(rcfg.base_delay * Pow2(n - 1), rcfg.max_delay))

\* What escapes Retrying when it stops: reraise is left at its default,
\* False, so the last exception is wrapped.
TenacityExhausted(e) == RetryError

Terminal == rpc \in {"Succeeded", "Exhausted", "Aborted"}

\* The attempt counts the exception raised to the caller holds: tenacity's
\* RetryError holds last_attempt, whose attempt_number is the number of
\* attempts made; an exception of the operation re-raised by `raise` is the
\* object the operation made and holds none.
AttemptsCarried(e) == IF e.type = "RetryError" THEN {attempt} ELSE {}

\* final_attempt of the log record "All retry attempts failed":
\* attempt + 1 in retry_with_custom_backoff, attempt_count (the number of
\* before_sleep calls) in retry_with_tenacity.
FinalAttemptLogged ==
    IF rcfg.kind = "custom" THEN attempt ELSE Len(sleeps)

RetryInit ==
    /\ \E kind \in {"custom", "tenacity"}, m \in 1..MaxAttemptsBound,
          b \in BaseDelays :
          rcfg = [kind |-> kind, max_attempts |-> m, base_delay |-> b,
                  max_delay |-> DefaultMaxDelay]
    /\ script \in [1..rcfg.max_attempts -> Outcomes]
    /\ rpc = "Attempting"
    /\ attempt = 0
    /\ sleeps = <<>>
    /\ last_exception = NoException
    /\ outcome = NoOutcome

\* One pass of `for attempt in range(max_attempts)` of
\* retry_with_custom_backoff: call func, then return, re-raise or sleep.
CustomAttempt ==
    /\ rcfg.kind = "custom"
    /\ rpc = "Attempting"
    /\ attempt < rcfg.max_attempts
    /\ LET i == attempt
           o == script[i + 1]
       IN  /\ attempt' = attempt + 1
           /\ IF o.kind = "return"
              THEN /\ rpc' = "Succeeded"
                   /\ outcome' = o
                   /\ UNCHANGED <<last_exception, sleeps>>
              ELSE /\ last_exception' = o.exc
                   /\ rpc' = CustomDecision(o.exc, i)
                   /\ IF rpc' = "RetryScheduled"
                      THEN /\ \E jitter \in 0..JitterMax :
                                 sleeps' = Append(sleeps, CustomDelay(i, jitter))
                           /\ UNCHANGED outcome
                      ELSE /\ outcome' = o
                           /\ UNCHANGED sleeps
    /\ UNCHANGED <<rcfg, script>>

\* One pass of `for attempt in Retrying(...)` of retry_with_tenacity.
TenacityAttempt ==
    /\ rcfg.kind = "tenacity"
    /\ rpc = "Attempting"
    /\ LET n == attempt + 1
           o == script[n]
       IN  /\ attempt' = n
           /\ IF o.kind = "return"
              THEN /\ rpc' = "Succeeded"
                   /\ outcome' = o
                   /\ UNCHANGED <<last_exception, sleeps>>
              ELSE /\ last_exception' = o.exc
                   /\ rpc' = TenacityDecision(o.exc, n)
                   /\ CASE rpc' = "RetryScheduled" ->
                             /\ sleeps' = Append(sleeps, TenacityWait(n))
                             /\ UNCHANGED outcome
                        [] rpc' = "Exhausted" ->
                             /\ outcome' = Raise(TenacityExhausted(o.exc))
                             /\ UNCHANGED sleeps
                        [] OTHER ->
                             /\ outcome' = o
                             /\ UNCHANGED sleeps
    /\ UNCHANGED <<rcfg, script>>

\* time.sleep(delay) returns and the loop goes on to the next attempt.
SleepDone ==
    /\ rpc = "RetryScheduled"
    /\ rpc' = "Attempting"
    /\ UNCHANGED <<rcfg, script, attempt, sleeps, last_exception, outcome>>

\* No bucket exists in the retry specification.
NoBucket ==
    /\ capacity = 0 /\ refill_rate = 0 /\ requests_per_minute = 0
    /\ tokens = 0 /\ last_refill = 0 /\ lock = NoThread
    /\ clock = 0 /\ ticks = 0
    /\ pc = [t \in Threads |-> "idle"]
    /\ call = [t \in Threads |-> IdleCall]
    /\ local = [t \in Threads |-> IdleLocal]
    /\ ncalls = 0 /\ nTrue = 0 /\ nFalse = 0 /\ onlyConsume1 = TRUE
    /\ granted = 0 /\ drainedAt = -1 /\ base = [tokens |-> tokens, at |-> 0]
    /\ built = "no" /\ advice = NoAdvice

RetryNext ==
    \/ CustomAttempt /\ UNCHANGED <<bucketVars, parseVars, genVars, fnVars, memVars>>
    \/ TenacityAttempt /\ UNCHANGED <<bucketVars, parseVars, genVars, fnVars, memVars>>
    \/ SleepDone /\ UNCHANGED <<bucketVars, parseVars, genVars, fnVars, memVars>>

InitRetry == NoBucket /\ RetryInit /\ ParseIdle /\ GenIdle /\ FnIdle /\ MemIdle

SpecRetry == InitRetry /\ [][RetryNext]_vars

\* The whole run of each entry point on the script as a function: the
\* number of invocations and the terminal state, from pass i (0-based) of
\* retry_with_custom_backoff and from attempt n (1-based) of Retrying.
RECURSIVE CustomRun(_)
CustomRun(i) ==
    LET o == script[i + 1]
    IN  IF o.kind = "return" THEN [calls |-> i + 1, end |-> "Succeeded"]
        ELSE IF CustomDecision(o.exc, i) = "RetryScheduled" THEN CustomRun(i + 1)
        ELSE [calls |-> i + 1, end |-> CustomDecision(o.exc, i)]

RECURSIVE TenacityRun(_)
TenacityRun(n) ==
    LET o == script[n]
    IN  IF o.kind = "return" THEN [calls |-> n, end |-> "Succeeded"]
        ELSE IF TenacityDecision(o.exc, n) = "RetryScheduled" THEN TenacityRun(n + 1)
        ELSE [calls |-> n, end |-> TenacityDecision(o.exc, n)]

\* The retry call runs in one thread: func returns or raises and
\* time.sleep returns, so a step that is possible is eventually taken.
SpecRetryFair == SpecRetry /\ WF_<<rpc, attempt>>(RetryNext)

(***************************************************************************)
(* Response validation: TweetResponse (src/src/models/tweet_models.py) and *)
(* JSONTweetGenerator.validate_and_parse_response                           *)
(* (src/src/services/tweet_generator.py)                                    *)
(*                                                                         *)
(* A response text is a sequence of tokens: "{", "}", "t" (one character   *)
(* of commentary that is neither a brace nor part of a JSON value) and "B" *)
(* (a well-formed list of members, the one held in `payload`).  A tweet is *)
(* a sequence of characters: "w" (a word character), " " (white space) and *)
(* "W" (a run of LongWordLen word characters).                             *)
(***************************************************************************)
MaxTweetLen == 7
MaxTextLen == 5

TweetMinLength == 1
TweetMaxLength == 280
WordCountTolerance == 2
Sentiments == {"positive", "negative", "neutral"}

\* A run of word characters that alone fills a tweet up to max_length.
LongWordLen == TweetMaxLength

\* All sequences over S of length at most n.
SeqsUpTo(S, n) == UNION {[1..k -> S] : k \in 0..n}

\* len(tweet)
RECURSIVE TweetLen(_)
TweetLen(t) ==
    IF t = <<>> THEN 0
    ELSE (IF Head(t) = "W" THEN LongWordLen ELSE 1) + TweetLen(Tail(t))

\* str.strip()
RECURSIVE Strip(_)
Strip(t) ==
    IF t = <<>> THEN t
    ELSE IF Head(t) = " " THEN Strip(Tail(t))
    ELSE IF t[Len(t)] = " " THEN Strip(SubSeq(t, 1, Len(t) - 1))
    ELSE t

\* len(str.split()): the number of maximal runs of non-blank characters
SplitCount(t) ==
    Cardinality({i \in 1..Len(t) : t[i] # " " /\ (i = 1 \/ t[i - 1] = " ")})

\* abs(v - actual_count)
Abs(x) == IF x < 0 THEN -x ELSE x

\* validate_word_count_accuracy: the claimed count is rejected
WordCountMismatchNoTolerance(v, tweet) == v # SplitCount(tweet)

WordCountMismatch(v, tweet) ==
    Abs(v - SplitCount(tweet)) > WordCountTolerance

\* The errors of the field `tweet`: the constraints of Field, then
\* validate_tweet_content.
TweetErrors(d) ==
    IF "tweet" \notin d.fields THEN {"tweet: field required"}
    ELSE IF TweetLen(d.tweet) < TweetMinLength THEN {"tweet: min_length"}
    ELSE IF TweetLen(d.tweet) > TweetMaxLength THEN {"tweet: max_length"}
    ELSE IF Strip(d.tweet) = <<>> THEN {"tweet: Tweet cannot be empty"}
    ELSE {}

\* The errors of the field `word_count`: the constraint of Field, then
\* validate_word_count_accuracy, which sees the validated (stripped) tweet
\* in `values` only when the tweet passed.
WordCountErrors(d) ==
    IF "word_count" \notin d.fields THEN {"word_count: field required"}
    ELSE IF ~(d.word_count > 0) THEN {"word_count: gt"}
    ELSE IF TweetErrors(d) = {} /\ WordCountMismatch(d.word_count, Strip(d.tweet))
    THEN {"word_count: Word count mismatch"}
    ELSE {}

SentimentErrors(d) ==
    IF "sentiment" \notin d.fields THEN {"sentiment: field required"}
    ELSE IF d.sentiment \notin Sentiments THEN {"sentiment: literal"}
    ELSE {}

\* The errors ValidationError of TweetResponse(**data) carries; none: valid.
ValidationErrors(d) == TweetErrors(d) \cup WordCountErrors(d) \cup SentimentErrors(d)

\* What validate_and_parse_response returns or raises.
TweetResponse(d) ==
    [kind |-> "TweetResponse", message |-> "", errors |-> {},
     tweet |-> Strip(d.tweet), word_count |-> d.word_count,
     sentiment |-> d.sentiment]
\* `raise ValueError(f"...: {e}")` with the text of e left out
ValueErrorNoDetail(message, errors) ==
    [kind |-> "ValueError", message |-> message, errors |-> {},
     tweet |-> <<>>, word_count |-> 0, sentiment |-> ""]

ValueError(message, errors) ==
    [kind |-> "ValueError", message |-> message, errors |-> errors,
     tweet |-> <<>>, word_count |-> 0, sentiment |-> ""]

\* A decoded JSON object: the members present and their values.
Members(fields, tweet, word_count, sentiment) ==
    [fields |-> fields, tweet |-> tweet, word_count |-> word_count,
     sentiment |-> sentiment]
EmptyObject == Members({}, <<>>, 0, "")

\* str.find and str.rfind: the 0-based index, -1 when absent
Find(text, c) ==
    IF \E i \in 1..Len(text) : text[i] = c
    THEN (CHOOSE i \in 1..Len(text) :
              text[i] = c /\ \A j \in 1..(i - 1) : text[j] # c) - 1
    ELSE -1

RFind(text, c) ==
    IF \E i \in 1..Len(text) : text[i] = c
    THEN (CHOOSE i \in 1..Len(text) :
              text[i] = c /\ \A j \in (i + 1)..Len(text) : text[j] # c) - 1
    ELSE -1

\* text[a:b] of Python: negative indices count from the end, both are
\* clamped to the text.
PySlice(text, a, b) ==
    LET norm(i) == IF i < 0 THEN Max(0, Len(text) + i) ELSE Min(i, Len(text))
    IN  IF norm(a) >= norm(b) THEN <<>>
        ELSE SubSeq(text, norm(a) + 1, norm(b))

\* `if start == -1 or end == -1`
BraceMissingOnlyOpen(start, end) == start = -1

BraceMissing(start, end) == start = -1 \/ end = -1

\* json_str = raw_response[start:end+1]
JsonSpanWholeText(text, start, end) == text

JsonSpan(text, start, end) == PySlice(text, start, end + 1)

\* json.loads does not raise JSONDecodeError: the span is one object, empty
\* or with one list of members.
JsonDecodesAnything(s) == TRUE

JsonDecodes(s) == s = <<"{", "}">> \/ s = <<"{", "B", "}">>

\* json.loads
JsonLoads(s, body) == IF s = <<"{", "}">> THEN EmptyObject ELSE body

\* validate_and_parse_response as a function of the text.
ParseOutcome(text, body) ==
    LET start == Find(text, "{")
        end == RFind(text, "}")
        span == JsonSpan(text, start, end)
        d == JsonLoads(span, body)
    IN  IF BraceMissing(start, end)
        THEN ValueError("No JSON found in response", {})
        ELSE IF ~JsonDecodes(span)
        THEN ValueError("Invalid JSON format", {})
        ELSE IF ValidationErrors(d) # {}
        THEN ValueError("Schema validation failed", ValidationErrors(d))
        ELSE TweetResponse(d)

TextTokens == {"{", "}", "t", "B"}
Texts == SeqsUpTo(TextTokens, MaxTextLen)

Tweets == SeqsUpTo({"w", " "}, MaxTweetLen)
              \cup {<<"W">>, <<"W", "w">>, <<"W", " ">>, <<" ", "W">>}
WordCounts == 0..MaxTweetLen
AllFields == {"tweet", "word_count", "sentiment"}

\* Objects with every member present, and objects with one member absent.
Payloads ==
    {Members(AllFields, t, w, s) :
        t \in Tweets, w \in WordCounts, s \in Sentiments \cup {"angry"}}
    \cup {Members(AllFields \ {f}, <<"w", " ", "w">>, 2, "positive") :
              f \in AllFields}

\* A few objects to go with every text: valid, wrong count, member absent,
\* blank tweet.
SamplePayloads ==
    {Members(AllFields, <<"w", " ", "w">>, 2, "positive"),
     Members(AllFields, <<"w">>, 4, "neutral"),
     Members({"tweet"}, <<"w">>, 0, ""),
     Members(AllFields, <<" ">>, 1, "negative")}

ParseInit ==
    /\ \/ raw_response \in Texts /\ payload \in SamplePayloads
       \/ raw_response = <<"{", "B", "}">> /\ payload \in Payloads
    /\ ppc = "start"
    /\ json_str = <<>>
    /\ data = None
    /\ presult = None
    /\ triedDecode = FALSE
    /\ triedSchema = FALSE

\* start = find('{'), end = rfind('}'); raise when a brace is absent, else
\* take the span.
ParseExtract ==
    /\ ppc = "start"
    /\ LET start == Find(raw_response, "{")
           end == RFind(raw_response, "}")
       IN  IF BraceMissing(start, end)
           THEN /\ presult' = ValueError("No JSON found in response", {})
                /\ ppc' = "done"
                /\ UNCHANGED json_str
           ELSE /\ json_str' = JsonSpan(raw_response, start, end)
                /\ ppc' = "extracted"
                /\ UNCHANGED presult
    /\ UNCHANGED <<raw_response, payload, data, triedDecode, triedSchema>>

\* data = json.loads(json_str), JSONDecodeError turned into ValueError
ParseDecode ==
    /\ ppc = "extracted"
    /\ triedDecode' = TRUE
    /\ IF JsonDecodes(json_str)
       THEN /\ data' = JsonLoads(json_str, payload)
            /\ ppc' = "decoded"
            /\ UNCHANGED presult
       ELSE /\ presult' = ValueError("Invalid JSON format", {})
            /\ ppc' = "done"
            /\ UNCHANGED data
    /\ UNCHANGED <<raw_response, payload, json_str, triedSchema>>

\* return TweetResponse(**data), ValidationError turned into ValueError
ParseValidate ==
    /\ ppc = "decoded"
    /\ triedSchema' = TRUE
    /\ presult' = IF ValidationErrors(data) = {}
                  THEN TweetResponse(data)
                  ELSE ValueError("Schema validation failed",
                                  ValidationErrors(data))
    /\ ppc' = "done"
    /\ UNCHANGED <<raw_response, payload, json_str, data, triedDecode>>

ParseNext ==
    \/ ParseExtract /\ UNCHANGED <<bucketVars, retryVars, genVars, fnVars, memVars>>
    \/ ParseDecode /\ UNCHANGED <<bucketVars, retryVars, genVars, fnVars, memVars>>
    \/ ParseValidate /\ UNCHANGED <<bucketVars, retryVars, genVars, fnVars, memVars>>

InitParse == NoBucket /\ RetryIdle /\ ParseInit /\ GenIdle /\ FnIdle /\ MemIdle

SpecParse == InitParse /\ [][ParseNext]_vars

(***************************************************************************)
(* Tweet generation: JSONTweetGenerator.generate_tweet_with_retry           *)
(* (src/src/services/tweet_generator.py) over GeminiAPIClient.call_api      *)
(* (src/src/services/api_client.py), and generate_tweet (src/main.py) over  *)
(* call_gemini_api and retry_with_tenacity.                                 *)
(***************************************************************************)
MaxRetriesBound == 2

MinMaxWords == 5
MaxMaxWords == 50
MinTopicLength == 2

\* TweetTemplate.VALID_TONES
ValidTones == {"professional", "humorous", "casual", "excited",
               "informative", "sarcastic"}

\* str.lower() on the tones of the model
Lower(tone) == IF tone = "CASUAL" THEN "casual" ELSE tone

\* TweetTemplate._validate_variables does not raise.  A topic is a sequence
\* of characters, as a tweet is.
TemplateAcceptsUntrimmed(req) ==
    /\ Lower(req.tone) \in ValidTones
    /\ req.max_words >= MinMaxWords /\ req.max_words <= MaxMaxWords
    /\ Len(req.topic) >= MinTopicLength

TemplateAccepts(req) ==
    /\ Lower(req.tone) \in ValidTones
    /\ req.max_words >= MinMaxWords /\ req.max_words <= MaxMaxWords
    /\ Len(Strip(req.topic)) >= MinTopicLength

\* generate_enhanced_prompt formats the prompt whatever the arguments are.
EnhancedPromptAccepts(req) == TRUE

Request(topic, tone, max_words) ==
    [topic |-> topic, tone |-> tone, max_words |-> max_words]

Requests ==
    {Request(<<"w", "w">>, "casual", MinMaxWords),
     Request(<<"w", " ", "w">>, "CASUAL", MaxMaxWords),
     Request(<<"w", "w">>, "angry", MinMaxWords),
     Request(<<"w", "w">>, "casual", MinMaxWords - 1),
     Request(<<"w", "w">>, "casual", MaxMaxWords + 1),
     Request(<<" ", "w", " ">>, "casual", MinMaxWords)}

\* What the gateway does on one call, at the level of HTTP.
GatewayOk(text, body) ==
    [kind |-> "ok", status |-> 200, text |-> text, body |-> body]
GatewayMalformed ==
    [kind |-> "malformed", status |-> 200, text |-> <<>>, body |-> EmptyObject]
GatewayStatus(status) ==
    [kind |-> "status", status |-> status, text |-> <<>>, body |-> EmptyObject]
GatewayTimeout ==
    [kind |-> "timeout", status |-> 0, text |-> <<>>, body |-> EmptyObject]
GatewayConnectionError ==
    [kind |-> "connection", status |-> 0, text |-> <<>>, body |-> EmptyObject]

GatewayBehaviours ==
    {GatewayOk(<<"t", "{", "B", "}">>,
               Members(AllFields, <<"w", " ", "w">>, 2, "positive")),
     GatewayOk(<<"t">>, EmptyObject),
     GatewayOk(<<"{", "B", "}">>,
               Members(AllFields, <<"w">>, 4, "neutral")),
     GatewayMalformed, GatewayStatus(400), GatewayStatus(500),
     GatewayTimeout, GatewayConnectionError}

IsClientError(status) == 400 <= status /\ status < 500

\* GeminiAPIClient.call_api: the text, or str(e) of the Exception raised.
\* No status other than 200 is told from another.
CallApi(b) ==
    CASE b.kind = "ok" -> [raised |-> FALSE, text |-> b.text, message |-> ""]
      [] b.kind = "malformed" ->
             [raised |-> TRUE, text |-> <<>>,
              message |-> "Invalid response structure"]
      [] b.kind = "status" ->
             [raised |-> TRUE, text |-> <<>>,
              message |-> "API error: " \o ToString(b.status)]
      [] OTHER ->
             [raised |-> TRUE, text |-> <<>>, message |-> "Request failed"]

\* call_gemini_api of main.py, as an outcome of the operation retried.
CallGeminiApi(b) ==
    CASE b.kind = "ok" -> Return("success")
      [] b.kind = "malformed" -> Raise(OtherException)
      [] b.kind = "status" ->
             IF 500 <= b.status /\ b.status < 600
             THEN Raise(RetryableHTTPError(b.status))
             ELSE Raise(OtherException)
      [] b.kind = "timeout" -> Raise(Timeout)
      [] OTHER -> Raise(ConnectionError)

\* The results of a generation call.
NoTweet ==
    [kind |-> "None", message |-> "", errors |-> {},
     tweet |-> <<>>, word_count |-> 0, sentiment |-> ""]
ValueErrorException == [type |-> "ValueError", status_code |-> 0]

APIResponse(success, d, error, count) ==
    [kind |-> "APIResponse", success |-> success, data |-> d,
     error |-> error, retry_count |-> count, exc |-> NoException]
Returned ==
    [kind |-> "return", success |-> TRUE, data |-> NoTweet,
     error |-> None, retry_count |-> 0, exc |-> NoException]
Raised(e) ==
    [kind |-> "raise", success |-> FALSE, data |-> NoTweet,
     error |-> None, retry_count |-> 0, exc |-> e]
NoResult ==
    [kind |-> "None", success |-> FALSE, data |-> NoTweet,
     error |-> None, retry_count |-> 0, exc |-> NoException]

\* The number of gateway behaviours a call can meet: range(max_retries + 1)
\* passes of the loop, or the attempts stop_after_attempt(max_retries) lets
\* through (the first attempt is always made).
NumCalls(entry, max_retries) ==
    IF entry = "main" THEN Max(1, max_retries) ELSE Max(0, max_retries + 1)

\* A RateLimiter exists beside the generator; its bucket is full.
GenLimiter ==
    /\ clock = 0
    /\ ticks = 0
    /\ RateLimiterInit(MaxRequestsPerMinute)
    /\ pc = [t \in Threads |-> "idle"]
    /\ call = [t \in Threads |-> IdleCall]
    /\ local = [t \in Threads |-> IdleLocal]
    /\ ncalls = 0 /\ nTrue = 0 /\ nFalse = 0 /\ onlyConsume1 = TRUE
    /\ granted = 0 /\ drainedAt = -1 /\ base = [tokens |-> tokens, at |-> 0]
    /\ built = "yes" /\ advice = NoAdvice

GenInit ==
    /\ greq \in Requests
    /\ \/ \E m \in (-1)..MaxRetriesBound :
             gcfg = [entry |-> "generator", max_retries |-> m]
       \/ \E m \in 0..(MaxRetriesBound + 1) :
             gcfg = [entry |-> "main", max_retries |-> m]
    /\ gscript \in [1..NumCalls(gcfg.entry, gcfg.max_retries) -> GatewayBehaviours]
    /\ gpc = "start"
    /\ gattempt = 0
    /\ retry_count = 0
    /\ last_error = None
    /\ gresult = NoResult
    /\ gatewayCalls = <<>>
    \* retry_with_tenacity(lambda: call_gemini_api(prompt),
    \*                     max_attempts=max_retries), not yet called
    /\ IF gcfg.entry = "main"
       THEN /\ rcfg = [kind |-> "tenacity", max_attempts |-> gcfg.max_retries,
                       base_delay |-> DefaultBaseDelay,
                       max_delay |-> DefaultMaxDelay]
            /\ script = [i \in 1..Len(gscript) |-> CallGeminiApi(gscript[i])]
       ELSE /\ rcfg = None
            /\ script = <<>>
    /\ rpc = "Idle"
    /\ attempt = 0
    /\ sleeps = <<>>
    /\ last_exception = NoException
    /\ outcome = NoOutcome

\* generate_tweet_with_retry is entered: retry_count = 0, last_error = None.
GenStart ==
    /\ gcfg.entry = "generator"
    /\ gpc = "start"
    /\ gpc' = "loop"
    /\ UNCHANGED <<greq, gcfg, gscript, gattempt, retry_count, last_error,
                   gresult, gatewayCalls>>

\* `except Exception as e`: the classes of the failures an attempt can
\* raise, Exception (call_api) and ValueError (validate_and_parse_response),
\* are both caught.
ExceptCatchesValueErrorOnly(type) == type = "ValueError"

ExceptCatches(type) == type \in {"Exception", "ValueError"}

\* `if attempt == max_retries: break`
LoopBreaksAlways(i, max_retries) == TRUE

LoopBreaks(i, max_retries) == i = max_retries

\* validate_and_parse_response without the schema: any decoded object passes.
ParseOutcomeNoSchema(text, body) ==
    LET v == ParseOutcome(text, body)
        span == JsonSpan(text, Find(text, "{"), RFind(text, "}"))
    IN  IF v.message = "Schema validation failed"
        THEN TweetResponse(JsonLoads(span, body))
        ELSE v

\* What validate_and_parse_response does inside the generator.
ValidateAndParseResponse(text, body) == ParseOutcome(text, body)

\* One pass of `for attempt in range(max_retries + 1)`: the prompt, the
\* gateway call, the validation, and the except block.
GenAttempt ==
    /\ gcfg.entry = "generator"
    /\ gpc = "loop"
    /\ gattempt < gcfg.max_retries + 1
    /\ EnhancedPromptAccepts(greq)
    /\ LET b == gscript[gattempt + 1]
           r == CallApi(b)
           v == ValidateAndParseResponse(r.text, b.body)
           failed == r.raised \/ v.kind = "ValueError"
           type == IF r.raised THEN "Exception" ELSE "ValueError"
       IN  /\ gatewayCalls' = Append(gatewayCalls, b.status)
           /\ IF ~failed
              THEN /\ gresult' = APIResponse(TRUE, v, None, retry_count)
                   /\ gpc' = "done"
                   /\ UNCHANGED <<gattempt, retry_count, last_error>>
              ELSE IF ~ExceptCatches(type)
              THEN /\ gresult' = Raised([type |-> type, status_code |-> 0])
                   /\ gpc' = "done"
                   /\ UNCHANGED <<gattempt, retry_count, last_error>>
              ELSE /\ last_error' = IF r.raised THEN r.message ELSE v.message
                   /\ retry_count' = retry_count + 1
                   /\ IF LoopBreaks(gattempt, gcfg.max_retries)
                      THEN gpc' = "exhausted" /\ UNCHANGED gattempt
                      ELSE gpc' = "loop" /\ gattempt' = gattempt + 1
                   /\ UNCHANGED gresult
    /\ UNCHANGED <<greq, gcfg, gscript>>

\* The return after the loop, reached by `break` or with the range used up.
GenGiveUp ==
    /\ gcfg.entry = "generator"
    /\ \/ gpc = "exhausted"
       \/ gpc = "loop" /\ ~(gattempt < gcfg.max_retries + 1)
    /\ gresult' = APIResponse(FALSE, NoTweet,
                              "Failed after " \o ToString(gcfg.max_retries + 1)
                                  \o " attempts: " \o last_error,
                              retry_count)
    /\ gpc' = "done"
    /\ UNCHANGED <<greq, gcfg, gscript, gattempt, retry_count, last_error,
                   gatewayCalls>>

\* generate_tweet of main.py up to the call of retry_with_tenacity:
\* TweetTemplate().generate_tweet_prompt raises ValueError or gives the prompt.
MainStart ==
    /\ gcfg.entry = "main"
    /\ gpc = "start"
    /\ IF TemplateAccepts(greq)
       THEN /\ gpc' = "retrying"
            /\ rpc' = "Attempting"
            /\ UNCHANGED gresult
       ELSE /\ gpc' = "done"
            /\ gresult' = Raised(ValueErrorException)
            /\ UNCHANGED rpc
    /\ UNCHANGED <<greq, gcfg, gscript, gattempt, retry_count, last_error,
                   gatewayCalls>>
    /\ UNCHANGED <<rcfg, script, attempt, sleeps, last_exception, outcome>>

\* One attempt of retry_with_tenacity: call_gemini_api calls the gateway.
MainAttempt ==
    /\ gcfg.entry = "main"
    /\ gpc = "retrying"
    /\ TenacityAttempt
    /\ gatewayCalls' = Append(gatewayCalls, gscript[attempt + 1].status)
    /\ UNCHANGED <<greq, gcfg, gscript, gpc, gattempt, retry_count,
                   last_error, gresult>>

MainSleepDone ==
    /\ gcfg.entry = "main"
    /\ gpc = "retrying"
    /\ SleepDone
    /\ UNCHANGED genVars

\* retry_with_tenacity returns, or raises and generate_tweet re-raises.
MainFinish ==
    /\ gcfg.entry = "main"
    /\ gpc = "retrying"
    /\ Terminal
    /\ gresult' = IF outcome.kind = "return" THEN Returned
                  ELSE Raised(outcome.exc)
    /\ gpc' = "done"
    /\ UNCHANGED <<greq, gcfg, gscript, gattempt, retry_count, last_error,
                   gatewayCalls>>
    /\ UNCHANGED retryVars

GenNext ==
    \/ GenStart /\ UNCHANGED <<bucketVars, retryVars, parseVars, fnVars, memVars>>
    \/ GenAttempt /\ UNCHANGED <<bucketVars, retryVars, parseVars, fnVars, memVars>>
    \/ GenGiveUp /\ UNCHANGED <<bucketVars, retryVars, parseVars, fnVars, memVars>>
    \/ MainStart /\ UNCHANGED <<bucketVars, parseVars, fnVars, memVars>>
    \/ MainAttempt /\ UNCHANGED <<bucketVars, parseVars, fnVars, memVars>>
    \/ MainSleepDone /\ UNCHANGED <<bucketVars, parseVars, fnVars, memVars>>
    \/ MainFinish /\ UNCHANGED <<bucketVars, parseVars, fnVars, memVars>>

InitGen == GenLimiter /\ GenInit /\ ParseIdle /\ FnIdle /\ MemIdle

SpecGen == InitGen /\ [][GenNext]_vars

(***************************************************************************)
(* The bucket used by one caller, with the clock and the constructor as    *)
(* the code has them: time.time() is the wall clock, which an adjustment   *)
(* can set back, and __init__ stores whatever it is given.                 *)
(***************************************************************************)
Solo == 1

\* time.time() after the wall clock was set back.
TickBack ==
    /\ ticks < MaxTicks
    /\ \E d \in TickSteps : clock' = clock - d
    /\ ticks' = ticks + 1
    /\ UNCHANGED <<cfgVars, extVars, histVars, tokens, last_refill, lock, pc, call, local>>

WallClockNext ==
    \/ Tick /\ UNCHANGED <<retryVars, parseVars, genVars, fnVars, memVars>>
    \/ TickBack /\ UNCHANGED <<retryVars, parseVars, genVars, fnVars, memVars>>
    \/ Acquire(Solo) /\ UNCHANGED <<retryVars, parseVars, genVars, fnVars, memVars>>
    \/ RefillTokens(Solo) /\ UNCHANGED <<retryVars, parseVars, genVars, fnVars, memVars>>
    \/ ConsumeCheck(Solo) /\ UNCHANGED <<retryVars, parseVars, genVars, fnVars, memVars>>
    \/ ConsumeDeduct(Solo) /\ UNCHANGED <<retryVars, parseVars, genVars, fnVars, memVars>>
    \/ GetStatus(Solo) /\ UNCHANGED <<retryVars, parseVars, genVars, fnVars, memVars>>
    \/ TimeUntil(Solo) /\ UNCHANGED <<retryVars, parseVars, genVars, fnVars, memVars>>
    \/ Release(Solo) /\ UNCHANGED <<retryVars, parseVars, genVars, fnVars, memVars>>

SpecWallClock == Init /\ [][WallClockNext]_vars

\* Nothing has been constructed yet.
Unbuilt ==
    /\ capacity = 0 /\ refill_rate = 0 /\ requests_per_minute = 0
    /\ tokens = 0 /\ last_refill = 0 /\ lock = NoThread
    /\ clock = 0 /\ ticks = 0
    /\ pc = [t \in Threads |-> "idle"]
    /\ call = [t \in Threads |-> IdleCall]
    /\ local = [t \in Threads |-> IdleLocal]
    /\ ncalls = 0 /\ nTrue = 0 /\ nFalse = 0 /\ onlyConsume1 = TRUE
    /\ granted = 0 /\ drainedAt = -1 /\ base = [tokens |-> tokens, at |-> 0]
    /\ built = "no" /\ advice = NoAdvice

\* TokenBucket.__init__ checks none of its arguments.
ConstructorAccepts(cap, rate) == TRUE

\* The arguments the constructors are called with, valid or not:
\* TokenBucket(capacity, refill_rate) and RateLimiter(requests_per_minute),
\* which passes capacity = rpm and refill_rate = rpm / 60.0.
ConstructorArgs ==
    {[cap |-> c, rate |-> r, rpm |-> 0] :
        c \in (-1)..MaxCapacity, r \in BucketRates \cup {0, -10}}
    \cup {[cap |-> m, rate |-> (m * TokenScale * TickMillis) \div (60 * 1000),
           rpm |-> m] : m \in ((-1)..MaxRequestsPerMinute) \ {0}}

\* TokenBucket.__init__ / RateLimiter.__init__
Construct ==
    /\ built = "no"
    /\ \E a \in ConstructorArgs :
          IF ConstructorAccepts(a.cap, a.rate)
          THEN /\ capacity' = a.cap
               /\ refill_rate' = a.rate
               /\ tokens' = a.cap * TokenScale
               /\ last_refill' = clock
               /\ lock' = NoThread
               /\ requests_per_minute' = a.rpm
               /\ built' = "yes"
          ELSE /\ built' = "raised"
               /\ UNCHANGED <<cfgVars, tokens, last_refill, lock>>
    /\ UNCHANGED <<advice, histVars, clock, ticks, pc, call, local>>

ConstructNext ==
    \/ Construct /\ UNCHANGED <<retryVars, parseVars, genVars, fnVars, memVars>>
    \/ built = "yes" /\ Tick /\ UNCHANGED <<retryVars, parseVars, genVars, fnVars, memVars>>
    \/ built = "yes" /\ Acquire(Solo) /\ UNCHANGED <<retryVars, parseVars, genVars, fnVars, memVars>>
    \/ RefillTokens(Solo) /\ UNCHANGED <<retryVars, parseVars, genVars, fnVars, memVars>>
    \/ ConsumeCheck(Solo) /\ UNCHANGED <<retryVars, parseVars, genVars, fnVars, memVars>>
    \/ ConsumeDeduct(Solo) /\ UNCHANGED <<retryVars, parseVars, genVars, fnVars, memVars>>
    \/ GetStatus(Solo) /\ UNCHANGED <<retryVars, parseVars, genVars, fnVars, memVars>>
    \/ TimeUntil(Solo) /\ UNCHANGED <<retryVars, parseVars, genVars, fnVars, memVars>>
    \/ Release(Solo) /\ UNCHANGED <<retryVars, parseVars, genVars, fnVars, memVars>>

InitConstruct == Unbuilt /\ RetryIdle /\ ParseIdle /\ GenIdle /\ FnIdle /\ MemIdle

SpecConstruct == InitConstruct /\ [][ConstructNext]_vars

(***************************************************************************)
(* The bucket used by one caller who looks at what the calls return: the   *)
(* caller keeps the last report and, told to wait, waits that long.        *)
(***************************************************************************)
\* The pause the one caller makes between two calls (ticks): 59.76 s; shorter
\* pauses are the waits of SleepAdvised.
FineSteps == {996}

TickFine ==
    /\ pc[Solo] = "idle"
    /\ ticks < MaxTicks
    /\ \E d \in FineSteps : clock' = clock + d
    /\ ticks' = ticks + 1
    /\ UNCHANGED <<cfgVars, extVars, histVars, tokens, last_refill, lock, pc, call, local>>

\* The least whole number of ticks that is no less than num/den.
CeilDiv(num, den) == (num + den - 1) \div den

\* The call returns; a report (status or wait) is kept by the caller with
\* the time it was made at, the token counts before the body of the call
\* (the elapsed time credited) and after it, and the time by which the wait
\* it names will have passed.
ReleaseNoting(t) ==
    /\ pc[t] = "release"
    /\ lock' = NoThread
    /\ pc' = [pc EXCEPT ![t] = "idle"]
    /\ call' = [call EXCEPT ![t] = IdleCall]
    /\ local' = [local EXCEPT ![t] = IdleLocal]
    /\ advice' =
          IF call[t].op = "consume" THEN advice
          ELSE [entry |-> call[t].entry, n |-> call[t].n, ret |-> local[t].ret,
                at |-> local[t].now, before |-> local[t].refilled, after |-> tokens,
                due |-> IF call[t].op = "time_until_available"
                           /\ local[t].ret.den > 0
                        THEN local[t].now
                                 + CeilDiv(local[t].ret.num, local[t].ret.den)
                        ELSE -1,
                nTrue |-> nTrue]
    /\ UNCHANGED <<cfgVars, built, ncalls, nTrue, nFalse, onlyConsume1, granted, base,
                   drainedAt, tokens, last_refill, clock, ticks>>

\* time.sleep(wait) with the wait time_until_available returned.
SleepAdvised ==
    /\ pc[Solo] = "idle"
    /\ advice.due > clock
    /\ clock' = advice.due
    /\ UNCHANGED <<cfgVars, extVars, histVars, tokens, last_refill, lock, pc,
                   call, local, ticks>>

SoloNext ==
    \/ TickFine /\ UNCHANGED <<retryVars, parseVars, genVars, fnVars, memVars>>
    \/ SleepAdvised /\ UNCHANGED <<retryVars, parseVars, genVars, fnVars, memVars>>
    \/ Acquire(Solo) /\ UNCHANGED <<retryVars, parseVars, genVars, fnVars, memVars>>
    \/ RefillTokens(Solo) /\ UNCHANGED <<retryVars, parseVars, genVars, fnVars, memVars>>
    \/ ConsumeCheck(Solo) /\ UNCHANGED <<retryVars, parseVars, genVars, fnVars, memVars>>
    \/ ConsumeDeduct(Solo) /\ UNCHANGED <<retryVars, parseVars, genVars, fnVars, memVars>>
    \/ GetStatus(Solo) /\ UNCHANGED <<retryVars, parseVars, genVars, fnVars, memVars>>
    \/ TimeUntil(Solo) /\ UNCHANGED <<retryVars, parseVars, genVars, fnVars, memVars>>
    \/ ReleaseNoting(Solo) /\ UNCHANGED <<retryVars, parseVars, genVars, fnVars, memVars>>

SpecSolo == Init /\ [][SoloNext]_vars

(***************************************************************************)
(* The bucket called with any integer count: consume(n) takes n as given.  *)
(***************************************************************************)
NonPositiveCounts == {0, -1}

\* A caller enters TokenBucket.consume(n) with n <= 0.
AcquireNonPositive(t) ==
    /\ pc[t] = "idle"
    /\ ncalls < MaxCalls
    /\ LockAvailable
    /\ requests_per_minute = 0
    /\ \E n \in NonPositiveCounts :
          call' = [call EXCEPT ![t] = [entry |-> "consume", op |-> "consume", n |-> n]]
    /\ onlyConsume1' = FALSE
    /\ lock' = t
    /\ pc' = [pc EXCEPT ![t] = "refill"]
    /\ local' = [local EXCEPT ![t].pre = tokens, ![t].drained = drainedAt]
    /\ ncalls' = ncalls + 1
    /\ UNCHANGED <<cfgVars, extVars, nTrue, nFalse, granted, base, drainedAt, tokens,
                   last_refill, clock, ticks>>

AnyCountNext ==
    \/ Tick /\ UNCHANGED <<retryVars, parseVars, genVars, fnVars, memVars>>
    \/ Acquire(Solo) /\ UNCHANGED <<retryVars, parseVars, genVars, fnVars, memVars>>
    \/ AcquireNonPositive(Solo) /\ UNCHANGED <<retryVars, parseVars, genVars, fnVars, memVars>>
    \/ RefillTokens(Solo) /\ UNCHANGED <<retryVars, parseVars, genVars, fnVars, memVars>>
    \/ ConsumeCheck(Solo) /\ UNCHANGED <<retryVars, parseVars, genVars, fnVars, memVars>>
    \/ ConsumeDeduct(Solo) /\ UNCHANGED <<retryVars, parseVars, genVars, fnVars, memVars>>
    \/ GetStatus(Solo) /\ UNCHANGED <<retryVars, parseVars, genVars, fnVars, memVars>>
    \/ TimeUntil(Solo) /\ UNCHANGED <<retryVars, parseVars, genVars, fnVars, memVars>>
    \/ Release(Solo) /\ UNCHANGED <<retryVars, parseVars, genVars, fnVars, memVars>>

SpecAnyCount == Init /\ [][AnyCountNext]_vars

(***************************************************************************)
(* Threads contending for the bucket: a call first waits for the lock,     *)
(* then runs its `with self.lock:` block, then returns.                    *)
(***************************************************************************)
\* The threads that call the bucket: two, so that one can wait on the other.
Contenders == {1, 2}

\* A thread calls a method; it has not entered `with self.lock:` yet.
CallStart(t) ==
    /\ pc[t] = "idle"
    /\ ncalls < MaxCalls
    /\ \E c \in Entries :
          /\ call' = [call EXCEPT ![t] = c]
          /\ onlyConsume1' = (onlyConsume1 /\ c.op = "consume" /\ c.n = 1)
    /\ pc' = [pc EXCEPT ![t] = "acquire"]
    /\ ncalls' = ncalls + 1
    /\ UNCHANGED <<cfgVars, extVars, nTrue, nFalse, granted, base, drainedAt, tokens,
                   last_refill, lock, clock, ticks, local>>

\* What thread t does once it has called: take the lock when it is free,
\* run the body, release.
ThreadStep(t) ==
    \/ BurstEnter(t)
    \/ RefillTokens(t)
    \/ ConsumeCheck(t)
    \/ ConsumeDeduct(t)
    \/ GetStatus(t)
    \/ TimeUntil(t)
    \/ Release(t)

ContendNext ==
    \/ \E t \in Contenders : CallStart(t) /\ UNCHANGED <<retryVars, parseVars, genVars, fnVars, memVars>>
    \/ \E t \in Contenders : BurstEnter(t) /\ UNCHANGED <<retryVars, parseVars, genVars, fnVars, memVars>>
    \/ \E t \in Contenders : RefillTokens(t) /\ UNCHANGED <<retryVars, parseVars, genVars, fnVars, memVars>>
    \/ \E t \in Contenders : ConsumeCheck(t) /\ UNCHANGED <<retryVars, parseVars, genVars, fnVars, memVars>>
    \/ \E t \in Contenders : ConsumeDeduct(t) /\ UNCHANGED <<retryVars, parseVars, genVars, fnVars, memVars>>
    \/ \E t \in Contenders : GetStatus(t) /\ UNCHANGED <<retryVars, parseVars, genVars, fnVars, memVars>>
    \/ \E t \in Contenders : TimeUntil(t) /\ UNCHANGED <<retryVars, parseVars, genVars, fnVars, memVars>>
    \/ \E t \in Contenders : Release(t) /\ UNCHANGED <<retryVars, parseVars, genVars, fnVars, memVars>>

\* A thread that can run is scheduled: each thread's step, when it stays
\* possible, is eventually taken. Nothing is assumed about which waiting
\* thread gets a free threading.Lock.
SpecContendFair ==
    /\ Init
    /\ [][ContendNext]_vars
    /\ \A t \in Contenders : WF_<<pc, lock>>(ThreadStep(t))

(***************************************************************************)
(* Conversation memory: ConversationMemoryManager                          *)
(* (src/src/services/memory_manager.py) over LangChain's                   *)
(* ConversationBufferWindowMemory, whose chat_memory keeps every message   *)
(* added; k limits only what its buffer property returns.                  *)
(***************************************************************************)
MaxWindow == 2
MaxMessages == 6

\* Messages carry the rank they were added at as their content.
HumanMessage(content) == [type |-> "human", content |-> content]
AIMessage(content) == [type |-> "ai", content |-> content]

\* ConversationMemoryManager(window_size)
MemoryInit ==
    /\ window_size \in 1..MaxWindow
    /\ messages = <<>>
    /\ turn_number = 0
    /\ added = 0

\* add_user_message
AddUserMessage ==
    /\ added < MaxMessages
    /\ messages' = Append(messages, HumanMessage(added + 1))
    /\ turn_number' = turn_number + 1
    /\ added' = added + 1
    /\ UNCHANGED window_size

\* add_ai_message
AddAiMessage ==
    /\ added < MaxMessages
    /\ messages' = Append(messages, AIMessage(added + 1))
    /\ added' = added + 1
    /\ UNCHANGED <<window_size, turn_number>>

\* clear_memory
ClearMemory ==
    /\ messages' = <<>>
    /\ turn_number' = 0
    /\ UNCHANGED <<window_size, added>>

\* get_conversation_history
GetConversationHistory ==
    [i \in 1..Len(messages) |->
        [role |-> IF messages[i].type = "human" THEN "user" ELSE "assistant",
         content |-> messages[i].content,
         turn |-> ((i - 1) \div 2) + 1]]

\* get_memory_status
GetMemoryStatus ==
    [total_messages |-> Len(messages),
     conversation_turns |-> Len(messages) \div 2,
     current_turn |-> turn_number,
     memory_window_size |-> window_size,
     is_memory_full |-> Len(messages) >= window_size * 2]

MemoryNext ==
    \/ AddUserMessage /\ UNCHANGED <<bucketVars, retryVars, parseVars, genVars, fnVars>>
    \/ AddAiMessage /\ UNCHANGED <<bucketVars, retryVars, parseVars, genVars, fnVars>>
    \/ ClearMemory /\ UNCHANGED <<bucketVars, retryVars, parseVars, genVars, fnVars>>

InitMemory == NoBucket /\ RetryIdle /\ ParseIdle /\ GenIdle /\ FnIdle /\ MemoryInit

SpecMemory == InitMemory /\ [][MemoryNext]_vars

(***************************************************************************)
(* Functions without state, one call each:                                 *)
(*   TweetTemplate.generate_tweet_prompt (src/prompt_template.py)          *)
(*   is_retryable_error (src/retry_handler.py)                             *)
(***************************************************************************)
MaxTopicLen == 3

Topics == SeqsUpTo({"w", " "}, MaxTopicLen)
Tones == ValidTones \cup {"CASUAL", "angry", ""}
MaxWordsValues ==
    (MinMaxWords - 1)..(MinMaxWords + 1) \cup (MaxMaxWords - 1)..(MaxMaxWords + 1)

\* The status codes an error can carry, and the errors is_retryable_error
\* is asked about.
StatusCodes == {200} \cup 400..600
Errors ==
    {RetryableHTTPError(c) : c \in StatusCodes}
    \cup {ConnectionError, Timeout, OtherException, ValueErrorException}

\* self.template.format(**kwargs): the template with its three fields filled.
TemplateText(topic, tone, max_words) ==
    [kind |-> "return", topic |-> topic, tone |-> tone, max_words |-> max_words]
TemplateRaises ==
    [kind |-> "raise", topic |-> <<>>, tone |-> "", max_words |-> 0]

\* TweetTemplate.generate_tweet_prompt: format(topic=topic,
\* tone=tone.lower(), max_words=max_words), which validates and fills.
GenerateTweetPrompt(req) ==
    IF TemplateAccepts(req)
    THEN TemplateText(req.topic, Lower(req.tone), req.max_words)
    ELSE TemplateRaises

PureInit ==
    /\ \/ \E topic \in Topics, tone \in Tones, w \in MaxWordsValues :
             fargs = [fn |-> "generate_tweet_prompt",
                      req |-> Request(topic, tone, w), exc |-> NoException]
       \/ \E e \in Errors :
             fargs = [fn |-> "is_retryable_error",
                      req |-> Request(<<>>, "", 0), exc |-> e]
    /\ fret = None
    /\ fpc = "called"

FormatPrompt ==
    /\ fpc = "called"
    /\ fargs.fn = "generate_tweet_prompt"
    /\ fret' = GenerateTweetPrompt(fargs.req)
    /\ fpc' = "done"
    /\ UNCHANGED fargs

Classify ==
    /\ fpc = "called"
    /\ fargs.fn = "is_retryable_error"
    /\ fret' = IsRetryableError(fargs.exc)
    /\ fpc' = "done"
    /\ UNCHANGED fargs

PureNext ==
    \/ FormatPrompt /\ UNCHANGED <<bucketVars, retryVars, parseVars, genVars, memVars>>
    \/ Classify /\ UNCHANGED <<bucketVars, retryVars, parseVars, genVars, memVars>>

InitPure == NoBucket /\ RetryIdle /\ ParseIdle /\ GenIdle /\ PureInit /\ MemIdle

SpecPure == InitPure /\ [][PureNext]_vars

(***************************************************************************)
(* Properties of the token bucket                                          *)
(***************************************************************************)
AllIdle == \A t \in Threads : pc[t] = "idle"
InBody(t) == pc[t] \notin {"idle", "refill"}

\* C1: when N threads each call consume(1) once, concurrently, on a bucket
\* of capacity C < N and no time elapses, then under every interleaving
\* exactly C of the calls return True and N - C return False.
C1_ExactlyCapacitySucceed ==
    (clock = 0 /\ capacity < NumThreads /\ \A t \in Threads : pc[t] = "done")
        => (nTrue = capacity /\ nFalse = NumThreads - capacity)

C1_Witness ==
    /\ clock = 0 /\ capacity = MaxCapacity
    /\ \A t \in Threads : pc[t] = "done"
    /\ nTrue = MaxCapacity /\ nFalse = NumThreads - MaxCapacity

\* C2: with a non-decreasing clock and consume(n), n >= 1, get_status and
\* time_until_available calls, the token count stays within 0..capacity.
C2_TokensWithinBounds == 0 <= tokens /\ tokens <= capacity * TokenScale

C2_Witness ==
    \E t \in Threads :
        /\ InBody(t)
        /\ local[t].pre < capacity * TokenScale
        /\ local[t].pre + local[t].elapsed * refill_rate > capacity * TokenScale
        /\ tokens = capacity * TokenScale

\* C3: while no time has elapsed since the bucket was created, the sum of n
\* over the consume(n) calls that returned True never exceeds the capacity,
\* and a RateLimiter has admitted at most requests_per_minute is_allowed()
\* calls.
C3_BurstWithinCapacity ==
    clock = 0 =>
        /\ granted <= capacity
        /\ (requests_per_minute > 0 => nTrue <= requests_per_minute)

C3_Witness ==
    /\ clock = 0 /\ AllIdle
    /\ granted = capacity /\ nTrue < granted /\ nFalse > 0

\* C4: a consume(n) that has refilled and decided returns True with the
\* token count lowered by exactly n when the refilled count was >= n, and
\* otherwise returns False with the refilled count untouched; when no time
\* had elapsed a failed consume leaves the count as it found it.
C4_ConsumeEffect ==
    \A t \in Threads :
        (pc[t] = "release" /\ call[t].op = "consume") =>
            LET n == call[t].n * TokenScale
                refilled == Min(capacity * TokenScale,
                                local[t].pre + local[t].elapsed * refill_rate)
            IN  IF refilled >= n
                THEN local[t].ret = TRUE /\ tokens = refilled - n
                ELSE /\ local[t].ret = FALSE
                     /\ tokens = refilled
                     /\ (local[t].elapsed = 0 => tokens = local[t].pre)

C4_Witness ==
    \E t \in Threads :
        /\ pc[t] = "release" /\ call[t].op = "consume"
        /\ local[t].ret = FALSE /\ local[t].elapsed = 0
        /\ tokens = local[t].pre /\ tokens > 0

\* C5: when a consume emptied the bucket at time d, the token count the
\* next operation observes at time d + t is min(capacity, t * refill_rate).
C5_RefillFromEmpty ==
    \A t \in Threads :
        (InBody(t) /\ local[t].drained # -1) =>
            local[t].refilled =
                Min(capacity * TokenScale,
                    (local[t].now - local[t].drained) * refill_rate)

C5_Witness ==
    \E t \in Threads :
        /\ InBody(t) /\ local[t].drained # -1
        /\ local[t].now > local[t].drained
        /\ local[t].refilled > 0
        /\ local[t].refilled < capacity * TokenScale

(***************************************************************************)
(* Properties of the retry sequence                                        *)
(***************************************************************************)
\* The operation fails retryably on its call number i.
FailsRetryably(i) == script[i].kind = "raise" /\ IsRetryableError(script[i].exc)
FailsFatally(i) == script[i].kind = "raise" /\ ~IsRetryableError(script[i].exc)

\* C6: in retry_with_custom_backoff, once the operation has raised an error
\* that is_retryable_error rejects, the sequence is aborted with that error,
\* no sleep follows it and the operation was not invoked after any such
\* error; a first call failing that way leaves exactly one invocation.
C6_NonRetryableAborts ==
    (rcfg.kind = "custom" /\ attempt >= 1) =>
        /\ \A i \in 1..(attempt - 1) : FailsRetryably(i)
        /\ FailsFatally(attempt) =>
              /\ rpc = "Aborted"
              /\ outcome = script[attempt]
              /\ Len(sleeps) = attempt - 1
        /\ FailsFatally(1) => attempt = 1

C6_Witness ==
    /\ rcfg.kind = "custom" /\ rcfg.max_attempts > 2
    /\ attempt = 2 /\ FailsFatally(2) /\ rpc = "Aborted"

\* C7: when the operation raises a retryable error on each of its first k
\* calls (k < max_attempts) and returns v on the next, both entry points end
\* by returning v after exactly k + 1 invocations and k sleeps.
C7_SuccessAfterRetries ==
    \A k \in 0..(rcfg.max_attempts - 1) :
        (/\ \A i \in 1..k : FailsRetryably(i)
         /\ script[k + 1].kind = "return")
        => /\ attempt <= k + 1
           /\ attempt = k + 1 => (rpc = "Succeeded" /\ outcome = script[k + 1])
           /\ Terminal => (attempt = k + 1 /\ Len(sleeps) = k)

C7_Witness ==
    /\ rcfg.kind = "tenacity" /\ rpc = "Succeeded" /\ attempt = 3
    /\ rcfg.max_attempts = 3

\* C8: when the operation raises a retryable error on every call, both
\* entry points invoke it exactly max_attempts times and then raise.
C8_ExhaustsMaxAttempts ==
    (\A i \in 1..rcfg.max_attempts : FailsRetryably(i)) =>
        /\ attempt <= rcfg.max_attempts
        /\ rpc # "Aborted" /\ rpc # "Succeeded"
        /\ attempt = rcfg.max_attempts <=> rpc = "Exhausted"
        /\ rpc = "Exhausted" => outcome.kind = "raise"

C8_Witness ==
    /\ rcfg.kind = "custom" /\ rpc = "Exhausted"
    /\ rcfg.max_attempts = MaxAttemptsBound /\ attempt = MaxAttemptsBound
    /\ \A i \in 1..rcfg.max_attempts : FailsRetryably(i)

\* C9: when the attempts are exhausted, the exception that escapes the
\* retry call is the last exception the operation itself raised.
C9_ExhaustionRaisesLastError ==
    rpc = "Exhausted" => outcome = script[attempt]

\* C10: the delay slept after failed attempt k is
\* min(max_delay, base_delay * 2^(k-1) + jitter) with 0 <= jitter <= 0.1 s,
\* so no delay exceeds max_delay.
C10_DelayFormula ==
    \A k \in 1..Len(sleeps) :
        /\ sleeps[k] <= rcfg.max_delay
        /\ \E jitter \in 0..JitterMax :
              sleeps[k] = Min(rcfg.max_delay,
                              rcfg.base_delay * Pow2(k - 1) + jitter)

(***************************************************************************)
(* Properties of tweet generation                                          *)
(***************************************************************************)
FromGenerator == gcfg.entry = "generator"
GenDone == gpc = "done"

\* C11: every gateway call made during generation is preceded by a call of
\* RateLimiter.is_allowed() that returned True: there are never more gateway
\* calls than admissions.
C11_GatewayCallsAdmitted == Len(gatewayCalls) <= nTrue

\* The TweetResponse r satisfies the schema of TweetResponse.
SatisfiesSchema(r) ==
    /\ r.kind = "TweetResponse"
    /\ TweetLen(r.tweet) >= TweetMinLength /\ TweetLen(r.tweet) <= TweetMaxLength
    /\ Strip(r.tweet) = r.tweet /\ r.tweet # <<>>
    /\ r.word_count > 0
    /\ Abs(r.word_count - SplitCount(r.tweet)) <= WordCountTolerance
    /\ r.sentiment \in Sentiments

\* C12: every APIResponse generate_tweet_with_retry returns is unambiguous:
\* with success true, data is a TweetResponse that satisfies the schema and
\* error is absent; with success false, data is absent and error is a
\* non-empty description.  This holds for every max_retries (negative too)
\* and every behaviour of the gateway.
C12_ResponseUnambiguous ==
    (FromGenerator /\ GenDone /\ gresult.kind = "APIResponse") =>
        IF gresult.success
        THEN SatisfiesSchema(gresult.data) /\ gresult.error = None
        ELSE /\ gresult.data = NoTweet
             /\ gresult.error # None /\ gresult.error # ""

\* A call that used up its attempts returned a failure.
C12_Witness ==
    /\ FromGenerator /\ GenDone /\ gresult.kind = "APIResponse"
    /\ ~gresult.success
    /\ gresult.retry_count = MaxRetriesBound + 1

\* C13: generate_tweet_with_retry never lets an exception escape: whatever
\* the gateway and the validator do, the call ends by returning an
\* APIResponse, and a call that has not ended can take a step.
C13_NeverPropagates ==
    FromGenerator =>
        /\ gresult.kind # "raise"
        /\ GenDone => gresult.kind = "APIResponse"
        /\ ~GenDone => ENABLED (GenStart \/ GenAttempt \/ GenGiveUp)

\* The gateway raised on every attempt and the call still returned.
C13_Witness ==
    /\ FromGenerator /\ GenDone /\ gresult.kind = "APIResponse"
    /\ gatewayCalls # <<>>
    /\ \A i \in 1..Len(gatewayCalls) : CallApi(gscript[i]).raised

\* Attempt i (1-based) of the generator fails: the gateway call raises or
\* the text it returns does not validate.
AttemptFails(i) ==
    \/ CallApi(gscript[i]).raised
    \/ ParseOutcome(CallApi(gscript[i]).text, gscript[i].body).kind = "ValueError"

\* C14: when the first k attempts fail (k <= max_retries) and attempt k+1
\* validates, generate_tweet_with_retry returns success with the
\* TweetResponse of attempt k+1 and retry_count = k, and makes no gateway
\* call after attempt k+1.
C14_SuccessAfterKFailures ==
    (FromGenerator /\ GenDone) =>
        \A k \in 0..gcfg.max_retries :
            ((\A i \in 1..k : AttemptFails(i)) /\ ~AttemptFails(k + 1)) =>
                /\ gresult = APIResponse(TRUE,
                                 ParseOutcome(gscript[k + 1].text, gscript[k + 1].body),
                                 None, k)
                /\ Len(gatewayCalls) = k + 1

\* Every retry was needed: the last permitted attempt validated.
C14_Witness ==
    /\ FromGenerator /\ GenDone
    /\ gcfg.max_retries = MaxRetriesBound
    /\ \A i \in 1..MaxRetriesBound : AttemptFails(i)
    /\ ~AttemptFails(MaxRetriesBound + 1)
    /\ gresult.success /\ gresult.retry_count = MaxRetriesBound

\* C15: a gateway failure with a client-error (4xx) status is never retried
\* on any generation path: no gateway call follows a call answered 4xx.
C15_ClientErrorNotRetried ==
    \A i \in 1..Len(gatewayCalls) :
        IsClientError(gatewayCalls[i]) => i = Len(gatewayCalls)

\* C16: with invalid request parameters (tone outside the allowed set,
\* max_words outside 5..50, topic shorter than 2 characters once trimmed)
\* generation fails with no gateway call at all, on every entry point.
C16_InvalidRequestNoGatewayCall ==
    ~TemplateAccepts(greq) => gatewayCalls = <<>>

(***************************************************************************)
(* Properties of response validation                                       *)
(***************************************************************************)
ParseDone == ppc = "done"
Accepted == presult.kind = "TweetResponse"
HasToken(text, c) == \E i \in 1..Len(text) : text[i] = c

\* The members other than word_count satisfy the schema.
OtherFieldsValid(d) ==
    /\ "tweet" \in d.fields
    /\ TweetLen(d.tweet) >= TweetMinLength /\ TweetLen(d.tweet) <= TweetMaxLength
    /\ HasToken(d.tweet, "w") \/ HasToken(d.tweet, "W")
    /\ "sentiment" \in d.fields /\ d.sentiment \in Sentiments

WithinTolerance(d) ==
    LET dev == d.word_count - SplitCount(d.tweet)
    IN  dev <= WordCountTolerance /\ -dev <= WordCountTolerance

\* C17, as stated: an object with a word_count whose other members are valid
\* is accepted as a TweetResponse if and only if word_count is within 2 of
\* the number of whitespace-separated tokens of the tweet.
C17_AcceptedIffWithinTolerance ==
    (ParseDone /\ triedSchema /\ "word_count" \in data.fields
              /\ OtherFieldsValid(data)) =>
        (Accepted <=> WithinTolerance(data))

\* C17, amended: the equivalence holds for a positive word_count (gt=0 is
\* checked before the tolerance); an object beyond the tolerance is never
\* accepted, and every TweetResponse built is within the tolerance.
C17_AcceptedIffPositiveWithinTolerance ==
    (ParseDone /\ triedSchema) =>
        /\ ("word_count" \in data.fields /\ OtherFieldsValid(data)
                /\ data.word_count > 0) =>
               (Accepted <=> WithinTolerance(data))
        /\ Accepted =>
               /\ WithinTolerance(data)
               /\ WithinTolerance(Members(AllFields, presult.tweet,
                                          presult.word_count, presult.sentiment))

\* A TweetResponse was built from a count exactly 2 above the actual one.
C17_Witness ==
    /\ ParseDone /\ triedSchema /\ Accepted
    /\ data.word_count = SplitCount(data.tweet) + WordCountTolerance

NoJSONFound == ValueError("No JSON found in response", {})

\* C18: for every response text with no "{" or with no "}",
\* validate_and_parse_response raises 'No JSON found' and neither json.loads
\* nor TweetResponse is ever called.
C18_NoBraceNoJSONFound ==
    (~HasToken(raw_response, "{") \/ ~HasToken(raw_response, "}")) =>
        /\ ~triedDecode /\ ~triedSchema
        /\ ppc \in {"start", "done"}
        /\ ParseDone => presult = NoJSONFound

\* A text that opens an object and never closes it was refused.
C18_Witness ==
    /\ ParseDone
    /\ HasToken(raw_response, "{") /\ HasToken(raw_response, "B")
    /\ ~HasToken(raw_response, "}")

\* Runs of commentary without braces.
Commentary == SeqsUpTo({"t"}, 2)

\* C19: the outcome of validate_and_parse_response depends only on the
\* substring from the first "{" to the last "}": it is the outcome for that
\* substring alone, and brace-free commentary put before or after the text
\* leaves the outcome (the TweetResponse or the error) unchanged.
C19_OnlyTheSpanMatters ==
    ParseDone =>
        /\ \A pre \in Commentary, suf \in Commentary :
               ParseOutcome(pre \o raw_response \o suf, payload) = presult
        /\ \A i \in 1..Len(raw_response), j \in 1..Len(raw_response) :
               (/\ i <= j
                /\ raw_response[i] = "{" /\ raw_response[j] = "}"
                /\ \A k \in 1..(i - 1) : raw_response[k] # "{"
                /\ \A k \in (j + 1)..Len(raw_response) : raw_response[k] # "}")
               => ParseOutcome(SubSeq(raw_response, i, j), payload) = presult

\* A TweetResponse was parsed out of a text with commentary on both sides.
C19_Witness ==
    /\ ParseDone /\ Accepted
    /\ raw_response = <<"t", "{", "B", "}", "t">>

\* C20: the checks are applied in a fixed order and exactly one outcome
\* results: 'No JSON found' when a brace is missing, else 'Invalid JSON
\* format' when the span does not decode, else 'Schema validation failed'
\* when a member is missing or breaks a constraint, else the TweetResponse;
\* every failure is a ValueError.
C20_ChecksInOrder ==
    ParseDone =>
        LET braces == HasToken(raw_response, "{") /\ HasToken(raw_response, "}")
            decodes == json_str \in {<<"{", "}">>, <<"{", "B", "}">>}
            d == IF json_str = <<"{", "}">> THEN EmptyObject ELSE payload
            conforms ==
                /\ d.fields = AllFields
                /\ OtherFieldsValid(d)
                /\ d.word_count > 0 /\ WithinTolerance(d)
        IN  /\ presult.kind \in {"TweetResponse", "ValueError"}
            /\ triedDecode <=> braces
            /\ triedSchema <=> (braces /\ decodes)
            /\ presult.message =
                   IF ~braces THEN "No JSON found in response"
                   ELSE IF ~decodes THEN "Invalid JSON format"
                   ELSE IF ~conforms THEN "Schema validation failed"
                   ELSE ""
            /\ Accepted <=> (braces /\ decodes /\ conforms)

\* A text passed the first two checks and failed the third.
C20_Witness ==
    /\ ParseDone /\ triedDecode /\ triedSchema
    /\ presult = ValueError("Schema validation failed",
                            {"word_count: Word count mismatch"})

\* The four causes of a validation failure, read off the text and the object.
CauseNoJSON == ~HasToken(raw_response, "{") \/ ~HasToken(raw_response, "}")
CauseMalformed ==
    ~CauseNoJSON /\ json_str \notin {<<"{", "}">>, <<"{", "B", "}">>}
Decoded == IF json_str = <<"{", "}">> THEN EmptyObject ELSE payload
TweetFieldValid(d) ==
    /\ "tweet" \in d.fields
    /\ TweetLen(d.tweet) >= TweetMinLength /\ TweetLen(d.tweet) <= TweetMaxLength
    /\ HasToken(d.tweet, "w") \/ HasToken(d.tweet, "W")
\* A member is absent or breaks its own constraint.
CauseSchema ==
    /\ ~CauseNoJSON /\ ~CauseMalformed
    /\ \/ Decoded.fields # AllFields
       \/ ~TweetFieldValid(Decoded)
       \/ ~(Decoded.word_count > 0)
       \/ Decoded.sentiment \notin Sentiments
\* The count declared for a valid tweet is off by more than the tolerance.
CauseMismatch ==
    /\ ~CauseNoJSON /\ ~CauseMalformed
    /\ TweetFieldValid(Decoded)
    /\ "word_count" \in Decoded.fields /\ Decoded.word_count > 0
    /\ ~WithinTolerance(Decoded)

\* The four diagnostics, read off the error raised.
MismatchDetail == "word_count: Word count mismatch"
DiagNoJSON == presult.message = "No JSON found in response"
DiagMalformed == presult.message = "Invalid JSON format"
DiagSchema ==
    /\ presult.message = "Schema validation failed"
    /\ presult.errors \ {MismatchDetail} # {}
DiagMismatch ==
    /\ presult.message = "Schema validation failed"
    /\ MismatchDetail \in presult.errors

\* C21: the four causes of a validation failure (no JSON, malformed JSON,
\* schema violation, word-count mismatch) all reach the caller as one
\* category, ValueError, and the error raised tells each cause from the
\* other three: each diagnostic is present exactly when its cause is.
C21_OneCategoryDistinctDiagnostics ==
    ParseDone =>
        /\ (CauseNoJSON \/ CauseMalformed \/ CauseSchema \/ CauseMismatch)
               <=> presult.kind = "ValueError"
        /\ CauseNoJSON <=> DiagNoJSON
        /\ CauseMalformed <=> DiagMalformed
        /\ CauseSchema <=> DiagSchema
        /\ CauseMismatch <=> DiagMismatch

\* An object with a wrong count and a wrong sentiment: both are reported.
C21_Witness ==
    /\ ParseDone /\ CauseSchema /\ CauseMismatch
    /\ presult.errors = {MismatchDetail, "sentiment: literal"}

(***************************************************************************)
(* Properties of the prompt template and of the error classification      *)
(***************************************************************************)
PromptDone == fpc = "done" /\ fargs.fn = "generate_tweet_prompt"
ClassifyDone == fpc = "done" /\ fargs.fn = "is_retryable_error"

\* The three constraints on (topic, tone, max_words), the tone taken as t.
MeetsConstraints(req, t) ==
    /\ t \in ValidTones
    /\ req.max_words \in MinMaxWords..MaxMaxWords
    /\ \E i \in 1..Len(req.topic), j \in 1..Len(req.topic) :
           i < j /\ req.topic[i] # " " /\ req.topic[j] # " "

\* C22, as stated: generate_tweet_prompt raises ValueError whenever tone is
\* not in the allowed set, max_words is outside 5..50 or the trimmed topic
\* has fewer than 2 characters, and otherwise returns the template text
\* containing the given topic and the given tone.
C22_PromptValidated ==
    PromptDone =>
        IF MeetsConstraints(fargs.req, fargs.req.tone)
        THEN /\ fret.kind = "return"
             /\ fret.topic = fargs.req.topic /\ fret.tone = fargs.req.tone
        ELSE fret.kind = "raise"

\* C22, amended: the tone is compared, and put into the text, in lower case.
C22_PromptValidatedLowerCase ==
    PromptDone =>
        IF MeetsConstraints(fargs.req, Lower(fargs.req.tone))
        THEN /\ fret.kind = "return"
             /\ fret.topic = fargs.req.topic
             /\ fret.tone = Lower(fargs.req.tone)
             /\ fret.max_words = fargs.req.max_words
        ELSE fret.kind = "raise"

\* An upper-case tone was accepted, around a topic with blanks at both ends.
C22_Witness ==
    /\ PromptDone /\ fret.kind = "return"
    /\ fargs.req.tone = "CASUAL" /\ fret.tone = "casual"
    /\ fargs.req.topic = <<"w", " ", "w">>

\* C23: is_retryable_error returns True exactly for a RetryableHTTPError
\* with a status code in 500..599 and for connection and timeout errors,
\* and False for every other error.
C23_RetryableClassification ==
    ClassifyDone =>
        (fret <=> \/ /\ fargs.exc.type = "RetryableHTTPError"
                      /\ fargs.exc.status_code \in 500..599
                   \/ fargs.exc.type = "ConnectionError"
                   \/ fargs.exc.type = "Timeout")

\* A RetryableHTTPError just below the 5xx range was classified.
C23_Witness ==
    /\ ClassifyDone
    /\ fargs.exc = RetryableHTTPError(499) /\ fret = FALSE

(***************************************************************************)
(* Properties of the bucket under the wall clock and any constructor       *)
(* arguments                                                                *)
(***************************************************************************)
\* C24: the elapsed-time accounting is immune to backward clock jumps: when
\* the clock an operation reads is behind the one stored at the last
\* refill, the refill does not lower the token count and the count does
\* not become negative.
C24_BackwardClockHarmless ==
    \A t \in Threads :
        (InBody(t) /\ local[t].elapsed < 0) =>
            /\ local[t].refilled >= local[t].pre
            /\ local[t].refilled >= 0

\* C25: a TokenBucket with capacity <= 0 or refill rate <= 0, or a
\* RateLimiter with requests_per_minute <= 0, is rejected with an error:
\* no bucket with such values is ever constructed.
C25_ConstructorRejectsNonPositive ==
    built = "yes" => (capacity > 0 /\ refill_rate > 0)

(***************************************************************************)
(* Properties of the reports of the bucket                                 *)
(***************************************************************************)
Returning(t, op) == pc[t] = "release" /\ call[t].op = op

\* C26: get_rate_limit_status reports remaining_requests equal to the floor
\* of the token count the bucket holds after its refill, and
\* limit_per_minute equal to the configured requests_per_minute.
C26_RemainingIsFloor ==
    \A t \in Threads :
        (Returning(t, "get_status") /\ call[t].entry = "get_rate_limit_status") =>
            /\ local[t].ret.remaining_requests = tokens \div TokenScale
            /\ local[t].ret.limit_per_minute = requests_per_minute

\* The value time_until_available(n) returns is 0 exactly when the bucket
\* holds n tokens and is (n - tokens) / refill_rate, which is positive,
\* otherwise.
WaitAsStated(t) ==
    Returning(t, "time_until_available") =>
        /\ (local[t].ret.num = 0) <=> (tokens >= call[t].n * TokenScale)
        /\ tokens < call[t].n * TokenScale =>
              /\ local[t].ret.num = call[t].n * TokenScale - tokens
              /\ local[t].ret.den = refill_rate
              /\ local[t].ret.num > 0 /\ local[t].ret.den > 0

\* consume(n) has refilled and is about to test the count, the caller having
\* waited at least as long as the last time_until_available(n) said, with no
\* consumption in between.
Waited(t) ==
    /\ pc[t] = "consume"
    /\ advice.entry \in {"time_until_available", "time_until_reset"}
    /\ advice.due >= 0
    /\ call[t].n = advice.n
    /\ nTrue = advice.nTrue
    /\ local[t].now >= advice.due

\* Right when is_allowed would be rejected, time_until_reset is in
\* (0, 60/requests_per_minute] seconds, i.e. (0, 1000/rpm] ticks.
ResetWithinPeriod(t) ==
    (Returning(t, "time_until_available") /\ call[t].entry = "time_until_reset"
        /\ tokens < TokenScale) =>
        /\ local[t].ret.num > 0 /\ local[t].ret.den > 0
        /\ local[t].ret.num * requests_per_minute * TickMillis
               <= 60 * 1000 * local[t].ret.den

Reporting(t) == Returning(t, "get_status") \/ Returning(t, "time_until_available")

\* The call of t runs at the instant of the last report, nothing having
\* been consumed since.
SameInstant(t) ==
    /\ advice.entry # None
    /\ local[t].now = advice.at
    /\ clock = advice.at
    /\ nTrue - (IF Returning(t, "consume") /\ local[t].ret = TRUE THEN 1 ELSE 0)
         = advice.nTrue

\* C28: get_status, get_rate_limit_status, time_until_available and
\* time_until_reset deduct no tokens: called again with no time elapsed they
\* leave the token count as it was and return the same report, and a consume
\* that follows has the result it would have had without them.
C28_ReportsDeductNothing ==
    \A t \in Threads :
        /\ Reporting(t) => tokens = local[t].refilled
        /\ (Reporting(t) /\ SameInstant(t)) =>
              /\ tokens = advice.after
              /\ advice.after = advice.before
              /\ (call[t].entry = advice.entry /\ call[t].n = advice.n) =>
                    local[t].ret = advice.ret
        /\ (Returning(t, "consume") /\ SameInstant(t)) =>
              (local[t].ret <=> advice.before >= call[t].n * TokenScale)

C28_Witness ==
    \E t \in Threads :
        /\ Reporting(t)
        /\ SameInstant(t)
        /\ call[t].entry = advice.entry
        /\ call[t].n = advice.n
        /\ local[t].ret = advice.ret
        /\ tokens > 0
        /\ tokens < capacity * TokenScale

(***************************************************************************)
(* Properties of the failure of an exhausted retry                         *)
(***************************************************************************)
\* C29: when a retry sequence ends because the attempts are exhausted, the
\* failure raised to the caller carries the total number of attempts made,
\* which is max_attempts.
C29_ExhaustionCarriesAttempts ==
    rpc = "Exhausted" =>
        /\ attempt = rcfg.max_attempts
        /\ AttemptsCarried(outcome.exc) = {rcfg.max_attempts}

\* The same read on the log record written before the failure is raised.
ExhaustionLogsAttempts ==
    rpc = "Exhausted" => FinalAttemptLogged = rcfg.max_attempts

(***************************************************************************)
(* Properties of the conversation memory                                   *)
(***************************************************************************)
Min2(a, b) == IF a <= b THEN a ELSE b

\* The history is a sequence of user/AI message pairs.
Paired ==
    /\ Len(messages) % 2 = 0
    /\ \A i \in 1..Len(messages) :
          messages[i].type = (IF i % 2 = 1 THEN "human" ELSE "ai")

\* The contents of the user messages of the last n turns added.
LastTurns(n) == {added - 2 * j - 1 : j \in 0..(n - 1)}

\* C30: with window_size k >= 1, after any sequence of user/AI message
\* pairs the history holds at most 2k messages (total_messages <= 2k) and
\* consists of the most recent min(turns, k) turns, the oldest pair having
\* been evicted first.
C30_WindowBoundsHistory ==
    Paired =>
        /\ GetMemoryStatus.total_messages <= 2 * window_size
        /\ {GetConversationHistory[i].content :
                i \in {j \in 1..Len(messages) : j % 2 = 1}}
             = LastTurns(Min2(turn_number, window_size))

(***************************************************************************)
(* Properties of whole retry sequences                                     *)
(***************************************************************************)
\* The terminal state agrees with what the operation did on its last call.
TerminalAsDecided ==
    /\ attempt <= rcfg.max_attempts
    /\ Terminal => attempt >= 1
    /\ rpc = "Succeeded" => script[attempt].kind = "return"
    /\ rpc = "Aborted" => FailsFatally(attempt)
    /\ rpc = "Exhausted" =>
          (attempt = rcfg.max_attempts /\ script[attempt].kind = "raise")

\* C31: for every max_attempts >= 1 and every behaviour of the operation, a
\* retry sequence reaches one terminal state (Succeeded, Aborted on a
\* non-retryable error, or Exhausted) after at most max_attempts
\* invocations, and once it is terminal the operation is not invoked again:
\* no step that calls, sleeps or changes the state starts in a terminal state.
C31_OneTerminalState ==
    /\ []TerminalAsDecided
    /\ [][~Terminal]_<<rpc, attempt, sleeps>>
    /\ <>Terminal

C31_Witness ==
    /\ rpc = "Exhausted"
    /\ attempt = rcfg.max_attempts
    /\ rcfg.max_attempts > 1
    /\ rcfg.kind = "custom"

\* C32: retry_with_custom_backoff sleeps exactly once between two
\* consecutive attempts and at no other time: the number of sleeps is the
\* number of invocations minus one when the sequence has ended, there is no
\* sleep before the first attempt, and a sleep follows only a retryable
\* failure that is not the last attempt allowed.
C32_SleepsBetweenAttempts ==
    rcfg.kind = "custom" =>
        /\ rpc = "Attempting" => Len(sleeps) = attempt
        /\ rpc = "RetryScheduled" =>
              /\ Len(sleeps) = attempt
              /\ attempt < rcfg.max_attempts
              /\ FailsRetryably(attempt)
        /\ Terminal => Len(sleeps) = attempt - 1

C32_Witness ==
    /\ rcfg.kind = "custom"
    /\ rpc = "Succeeded"
    /\ attempt = 3
    /\ Len(sleeps) = 2

(***************************************************************************)
(* Properties of the refill over several calls                             *)
(***************************************************************************)
\* C33: refill does not depend on the cadence of the calls: with tokens0
\* the count right after the last successful consume (or at construction)
\* and T the time from then to the last refill, the count is
\* min(capacity, tokens0 + T * refill_rate), whatever get_status,
\* time_until_available or failing consume calls were made in between and
\* whenever they were made.
C33_RefillIndependentOfCadence ==
    tokens = Min(capacity * TokenScale,
                 base.tokens + (last_refill - base.at) * refill_rate)

C33_Witness ==
    \E t \in Threads :
        /\ InBody(t)
        /\ call[t].op # "consume"
        /\ nTrue > 0
        /\ local[t].pre > base.tokens
        /\ local[t].elapsed > 0
        /\ local[t].refilled > local[t].pre
        /\ local[t].refilled < capacity * TokenScale
        /\ tokens = local[t].refilled

(***************************************************************************)
(* Properties of the attempts of generate_tweet_with_retry                 *)
(***************************************************************************)
\* The number of passes of the loop begun so far.
PassesBegun ==
    IF gpc = "exhausted" \/ (gpc = "done" /\ gatewayCalls # <<>>)
    THEN gattempt + 1
    ELSE gattempt

\* C34: generate_tweet_with_retry makes exactly one gateway call per
\* attempt and validates only the text that attempt's call returned; it
\* makes at most max_retries + 1 gateway calls, and exactly max_retries + 1
\* when every attempt fails, after which it returns success = false.
C34_OneGatewayCallPerAttempt ==
    FromGenerator =>
        /\ Len(gatewayCalls) = PassesBegun
        /\ Len(gatewayCalls) <= gcfg.max_retries + 1
        /\ \A i \in 1..Len(gatewayCalls) : gatewayCalls[i] = gscript[i].status
        /\ (GenDone /\ gresult.success) =>
              LET n == Len(gatewayCalls)
              IN  /\ n >= 1
                  /\ ~CallApi(gscript[n]).raised
                  /\ gresult.data = ParseOutcome(CallApi(gscript[n]).text,
                                                 gscript[n].body)
                  /\ \A i \in 1..(n - 1) : AttemptFails(i)
        /\ (GenDone /\ \A i \in 1..(gcfg.max_retries + 1) : AttemptFails(i)) =>
              /\ Len(gatewayCalls) = gcfg.max_retries + 1
              /\ gresult.kind = "APIResponse"
              /\ gresult.success = FALSE

C34_Witness ==
    /\ FromGenerator /\ GenDone
    /\ gcfg.max_retries = MaxRetriesBound
    /\ \A i \in 1..(MaxRetriesBound + 1) : AttemptFails(i)
    /\ Len(gatewayCalls) = MaxRetriesBound + 1
    /\ gresult.success = FALSE
    /\ \E i \in 1..MaxRetriesBound : ~CallApi(gscript[i]).raised

(***************************************************************************)
(* Properties of texts whose braces are out of order                       *)
(***************************************************************************)
\* Some "{" of the text stands before some "}".
OpensBeforeCloses(text) ==
    \E i, j \in 1..Len(text) : i < j /\ text[i] = "{" /\ text[j] = "}"

\* C35: for every response text in which no "{" occurs before a "}",
\* validate_and_parse_response fails with 'No JSON found' and with no other
\* kind of error.
C35_NoSpanNoJSONFound ==
    (ParseDone /\ ~OpensBeforeCloses(raw_response)) => presult = NoJSONFound

(***************************************************************************)
(* Properties of the two retry entry points compared                       *)
(***************************************************************************)
\* C36: retry_with_tenacity and retry_with_custom_backoff are equivalent as
\* retry controllers: for every max_attempts >= 1 and every sequence of
\* outcomes of the operation, the one that ran has invoked the operation as
\* many times, and ended in the same kind of outcome, as the other does on
\* the same sequence.
C36_ControllersEquivalent ==
    Terminal =>
        [calls |-> attempt, end |-> rpc] =
            (IF rcfg.kind = "custom" THEN TenacityRun(1) ELSE CustomRun(0))

\* Each run function agrees with the entry point it describes.
RunsAsModelled ==
    Terminal =>
        [calls |-> attempt, end |-> rpc] =
            (IF rcfg.kind = "custom" THEN CustomRun(0) ELSE TenacityRun(1))

(***************************************************************************)
(* Properties of retry_count                                               *)
(***************************************************************************)
\* C37: in every APIResponse generate_tweet_with_retry returns (with
\* max_retries >= 0), success or failure, retry_count is the number of
\* gateway calls made minus one, so 0 <= retry_count <= max_retries.
C37_RetryCountIsCallsMinusOne ==
    (FromGenerator /\ GenDone /\ gcfg.max_retries >= 0
        /\ gresult.kind = "APIResponse") =>
        /\ gresult.retry_count = Len(gatewayCalls) - 1
        /\ 0 <= gresult.retry_count
        /\ gresult.retry_count <= gcfg.max_retries

(***************************************************************************)
(* Properties of the limiter's report against is_allowed                   *)
(***************************************************************************)
\* C38: an is_allowed() call made at the instant of a get_rate_limit_status
\* report, with no consumption in between, returns true when the report
\* says allowed = true (or remaining_requests >= 1) and false when it says
\* allowed = false.
C38_ReportAgreesWithIsAllowed ==
    \A t \in Threads :
        (/\ Returning(t, "consume")
         /\ call[t].entry = "is_allowed"
         /\ advice.entry = "get_rate_limit_status"
         /\ SameInstant(t)) =>
            /\ local[t].ret = advice.ret.allowed
            /\ advice.ret.remaining_requests >= 1 => local[t].ret = TRUE

(***************************************************************************)
(* Properties of consume with any integer count                            *)
(***************************************************************************)
\* C39: for every integer n, zero and negative values included, consume(n)
\* leaves the token count within [0, capacity]: no call of consume raises
\* the count above the capacity.
C39_AnyCountWithinBounds ==
    /\ 0 <= tokens
    /\ tokens <= capacity * TokenScale

(***************************************************************************)
(* Properties of the lock under contention                                 *)
(***************************************************************************)
\* The lock is held by a thread exactly while it is inside a
\* `with self.lock:` block: not while it waits for the lock and not when
\* it is outside any call (where a retry sequence sleeps).
LockScoped ==
    \A t \in Threads :
        (lock = t) <=> (pc[t] \notin {"idle", "acquire"})

\* C40: with several threads calling consume, get_status and
\* time_until_available on one bucket, the lock is released on every path
\* and is never held across a wait, and under fair scheduling every call
\* eventually returns.
C40_EveryCallReturns ==
    /\ []LockScoped
    /\ \A t \in Contenders : (pc[t] # "idle") ~> (pc[t] = "idle")

C40_Witness ==
    \E t, u \in Threads :
        /\ t # u
        /\ pc[t] = "acquire"
        /\ lock = u
        /\ pc[u] = "release"
        /\ call[t].op # call[u].op

====
